---- MODULE Spec2Model ----
(***************************************************************************)
(* A model of the view / interaction state machine of MatephisPlot         *)
(* (src/js/matephis-plot.js): the constructor, draw(), the toolbar         *)
(* buttons, the slider listener and the pointer, wheel and touch handlers  *)
(* installed by _initInteractions.                                         *)
(*                                                                         *)
(* JavaScript numbers are modelled as exact rationals <<n, d>> (d > 0, in  *)
(* lowest terms), so that two numbers are equal iff their tuples are.      *)
(* null / undefined numbers are the empty tuple, null objects the record   *)
(* Null.                                                                   *)
(***************************************************************************)
EXTENDS Integers, Sequences, FiniteSets, TLC

----------------------------------------------------------------------------
(* Exact rational arithmetic *)

Abs(n) == IF n < 0 THEN -n ELSE n

RECURSIVE GCD(_, _)
GCD(a, b) == IF b = 0 THEN a ELSE GCD(b, a % b)

Norm(n, d) ==
    LET g == GCD(Abs(n), Abs(d))
        s == IF d < 0 THEN -1 ELSE 1
    IN  <<(s * n) \div g, (s * d) \div g>>

R(n) == <<n, 1>>
Frac(n, d) == Norm(n, d)

AddOver(a, b, g) ==
    Norm(a[1] * (b[2] \div g) + b[1] * (a[2] \div g), (a[2] \div g) * b[2])
Add(a, b) ==
    IF a[2] = b[2] THEN Norm(a[1] + b[1], a[2]) ELSE AddOver(a, b, GCD(a[2], b[2]))
Neg(a) == <<-a[1], a[2]>>
Sub(a, b) == Add(a, Neg(b))
MulOver(a, b, g1, g2) ==
    Norm((a[1] \div g1) * (b[1] \div g2), (a[2] \div g2) * (b[2] \div g1))
Mul(a, b) ==
    IF a[1] = 0 \/ b[1] = 0 THEN <<0, 1>>
    ELSE MulOver(a, b, GCD(Abs(a[1]), b[2]), GCD(Abs(b[1]), a[2]))
Div(a, b) == Mul(a, IF b[1] < 0 THEN <<-b[2], -b[1]>> ELSE <<b[2], b[1]>>)
Sign(a) == IF a[1] > 0 THEN 1 ELSE IF a[1] < 0 THEN -1 ELSE 0
Lt(a, b) == Sign(Sub(a, b)) < 0
Le(a, b) == Sign(Sub(a, b)) <= 0
Gt(a, b) == Lt(b, a)
Ge(a, b) == Le(b, a)
RAbs(a) == <<Abs(a[1]), a[2]>>
RMax(a, b) == IF Lt(a, b) THEN b ELSE a
RMin(a, b) == IF Lt(b, a) THEN b ELSE a
Half(a) == Mul(a, <<1, 2>>)

NullR == <<>>
Null == [null |-> TRUE]

Merge(r, extra) ==
    [k \in DOMAIN r \cup DOMAIN extra |-> IF k \in DOMAIN extra THEN extra[k] ELSE r[k]]

----------------------------------------------------------------------------
(* Bounds of the model *)

\* events per behaviour that write the view: wheel and toolbar zooms (counted
\* in nZoom), pointer-move pans and touch-moves (counted in nMove)
MaxOps == 1

----------------------------------------------------------------------------
(* The canvas, as _initSVG computes it from the configuration *)

\* this.width = Math.max(50, config.width || 600)
CanvasWidth(c) == IF c.width < 50 THEN 50 ELSE c.width
\* this.height = Math.max(50, config.height || this.width)
CanvasHeight(c) == IF c.height < 50 THEN 50 ELSE c.height
\* this.padding = config.padding
CanvasPadding(c) == c.padding
PlotW(c) == CanvasWidth(c) - 2 * CanvasPadding(c)
PlotH(c) == CanvasHeight(c) - 2 * CanvasPadding(c)

\* draw(): the limits used when the configuration gives none (-9.9, 9.9)
DefaultMin == Frac(-99, 10)
DefaultMax == Frac(99, 10)

\* _getClosestPointOnGraph: const threshold = 40
Threshold == 40
\* svg.onpointerdown: checkProx ... < 30
ProxThreshold == 30
\* svg.onpointermove: Math.abs(dx) > 2 || Math.abs(dy) > 2
MoveThreshold == 2

----------------------------------------------------------------------------
(* Configurations (the JSON given to the constructor).  An expression is    *)
(* [num |-> r] for a number or [param |-> k] for the name of a parameter.   *)

Num(n) == [num |-> R(n)]

\* data: a vertical line {x: 6} and a point set {points: [[8, "a"]]}
SelData == << [x |-> Num(6)], [points |-> << <<Num(8), [param |-> "a"]>> >>] >>

BaseCfg ==
    [ width |-> 70, height |-> 70, padding |-> 10, params |-> [a |-> 2],
      showSliders |-> FALSE,
      interactive |-> "true", xlim |-> <<R(-10), R(10)>>, ylim |-> <<R(-10), R(10)>>,
      constrainView |-> FALSE, equalAspect |-> FALSE,
      pointSelection |-> FALSE, slopeSelection |-> FALSE, tangentSelection |-> FALSE,
      traceDerivative |-> FALSE, data |-> << >> ]

\* plots without data items: no limits (the default view); constrainView;
\* equalAspect with sliders; interactive: false with sliders (no handlers)
ViewConfigs ==
    { [BaseCfg EXCEPT !.xlim = NullR, !.ylim = NullR],
      [BaseCfg EXCEPT !.constrainView = TRUE, !.ylim = <<R(-5), R(5)>>],
      [BaseCfg EXCEPT !.equalAspect = TRUE, !.xlim = <<R(0), R(20)>>,
                      !.ylim = <<R(-5), R(5)>>, !.showSliders = TRUE],
      [BaseCfg EXCEPT !.interactive = "false", !.showSliders = TRUE] }

\* plots with a selection mode and without interactive: true; the first has
\* no data items yet
SelConfigs ==
    { [BaseCfg EXCEPT !.interactive = "absent", !.pointSelection = TRUE],
      [BaseCfg EXCEPT !.interactive = "false", !.slopeSelection = TRUE,
                      !.data = SelData],
      [BaseCfg EXCEPT !.interactive = "false", !.pointSelection = TRUE,
                      !.tangentSelection = TRUE, !.data = SelData] }

\* the values the slider of parameter a can take
SliderValues == {2, 4}

\* pointer positions (clientX - rect.left, clientY - rect.top), in pixels
Positions == { <<52, 30>>, <<54, 30>>, <<10, 60>> }
WheelPositions == { <<52, 30>> }
\* e.touches of the touch events
TouchLists ==
    { << >>, << <<10, 60>> >>, << <<52, 30>> >>,
      << <<30, 20>>, <<50, 20>> >>, << <<20, 20>>, <<60, 20>> >> }

hasSelection(c) == c.pointSelection \/ c.slopeSelection \/ c.tangentSelection

----------------------------------------------------------------------------
(* draw(): bounds, view initialisation, transform *)

NullView == [xMin |-> NullR, xMax |-> NullR, yMin |-> NullR, yMax |-> NullR]

\* the configured limits, or the defaults (draw, and the Reset View button)
ConfigLimits(c) ==
    [ xMin |-> IF c.xlim # NullR THEN c.xlim[1] ELSE DefaultMin,
      xMax |-> IF c.xlim # NullR THEN c.xlim[2] ELSE DefaultMax,
      yMin |-> IF c.ylim # NullR THEN c.ylim[1] ELSE DefaultMin,
      yMax |-> IF c.ylim # NullR THEN c.ylim[2] ELSE DefaultMax ]

\* "Use View State if active": the bounds draw() starts from
DrawBounds(c, v) == IF v.xMin # NullR THEN v ELSE ConfigLimits(c)

\* draw() with the falsy test of _updateRange in place of "!== null"
DrawViewFalsy(c, v) == IF v.xMin # NullR /\ v.xMin # R(0) THEN v ELSE ConfigLimits(c)

\* "Init view state": the view after draw()
DrawView(c, v) == IF v.xMin # NullR THEN v ELSE ConfigLimits(c)

\* "Equal Aspect": the Y range recentred so that both axes have the same scale
EqualAspect(c, b) ==
    IF c.equalAspect
    THEN LET ppU  == Div(R(PlotW(c)), Sub(b.xMax, b.xMin))
             reqH == Div(R(PlotH(c)), ppU)
             yc   == Half(Add(b.yMin, b.yMax))
         IN  [b EXCEPT !.yMin = Sub(yc, Half(reqH)), !.yMax = Add(yc, Half(reqH))]
    ELSE b

\* this.transform = {..., xMin, xMax, yMin, yMax, width, height, padding}
DrawTransform(c, v) ==
    Merge(EqualAspect(c, DrawBounds(c, v)),
          [width |-> CanvasWidth(c), height |-> CanvasHeight(c),
           padding |-> CanvasPadding(c)])

mapX(t, x) ==
    Add(R(t.padding),
        Mul(Div(Sub(x, t.xMin), Sub(t.xMax, t.xMin)), R(t.width - 2 * t.padding)))
mapY(t, y) ==
    Sub(R(t.height - t.padding),
        Mul(Div(Sub(y, t.yMin), Sub(t.yMax, t.yMin)), R(t.height - 2 * t.padding)))
\* unmapX measuring the pixel from the left border of the canvas
unmapXUnpadded(t, px) ==
    Add(t.xMin, Mul(Div(px, R(t.width - 2 * t.padding)), Sub(t.xMax, t.xMin)))
unmapX(t, px) ==
    Add(t.xMin,
        Mul(Div(Sub(px, R(t.padding)), R(t.width - 2 * t.padding)), Sub(t.xMax, t.xMin)))
unmapY(t, py) ==
    Add(t.yMin,
        Mul(Div(Sub(R(t.height - t.padding), py), R(t.height - 2 * t.padding)),
            Sub(t.yMax, t.yMin)))

----------------------------------------------------------------------------
(* Distances.  Math.hypot(ex, ey) is compared, never printed, so a distance *)
(* is kept as its square; x -> x^2 is increasing on distances, so every     *)
(* comparison of the code is the same comparison of squares.                *)

\* a < b for rationals a, b >= 0, by continued fractions (no products)
RECURSIVE LtPos(_, _)
LtPos(a, b) ==
    LET qa == a[1] \div a[2]
        qb == b[1] \div b[2]
        ra == a[1] % a[2]
        rb == b[1] % b[2]
    IN  IF qa # qb THEN qa < qb
        ELSE IF rb = 0 THEN FALSE
        ELSE IF ra = 0 THEN TRUE
        ELSE LtPos(<<b[2], rb>>, <<a[2], ra>>)

Hypot2(ex, ey) == Add(Mul(ex, ex), Mul(ey, ey))

\* Math.hypot(ex, ey) < T, for an integer T > 0
HypotBelow(ex, ey, T) ==
    /\ Lt(RAbs(ex), R(T))
    /\ Lt(RAbs(ey), R(T))
    /\ Lt(Hypot2(ex, ey), R(T * T))

\* Math.hypot of two integers whose hypotenuse is an integer
RECURSIVE IntSqrtFrom(_, _)
IntSqrtFrom(n, r) == IF (r + 1) * (r + 1) > n THEN r ELSE IntSqrtFrom(n, r + 1)
HypotInt(ex, ey) == IntSqrtFrom(ex * ex + ey * ey, 0)

----------------------------------------------------------------------------
(* draw(): the adaptive sampler of a function item.  A JavaScript number is *)
(* a fraction <<n, d>> with d > 0, or NaN, Infinity or -Infinity.  The      *)
(* expressions are the ones below, each with the value its compiled form    *)
(* has at x.                                                                *)

\* _eval(val): a number, or an expression evaluated with the parameters
_eval(par, e) == IF "num" \in DOMAIN e THEN e.num ELSE R(par[e.param])

NaN == <<0, 0>>
PosInf == <<1, 0>>
NegInf == <<-1, 0>>
isFinite(y) == y[2] # 0

\* new Function("x", `return ${fnExpr}`) throws a SyntaxError
SyntaxErrors == { "2*(" }
\* the test call f(0) throws a ReferenceError
ReferenceErrors == { "foo(x)" }

\* f(x) of the compiled expression
fnAt(expr, par, x) ==
    IF expr = "x + 1" THEN Add(x, R(1))
    ELSE IF expr = "x + a" THEN Add(x, R(par.a))
    ELSE IF expr = "a*x" THEN Mul(R(par.a), x)
    ELSE IF expr = "1/x" THEN (IF x[1] = 0 THEN PosInf ELSE Div(R(1), x))
    ELSE IF expr = "(x^2 - 1)/(x - 1)"
    THEN (IF x = R(1) THEN NaN ELSE Add(x, R(1)))
    ELSE IF expr = "0*sqrt(1 - x^2) + x"
    THEN (IF Gt(RAbs(x), R(1)) THEN NaN ELSE x)
    ELSE NaN

MAX_DEPTH == 8
TOLERANCE == Frac(1, 5)
\* "If jump > 100px, assume asymptote/discontinuity and break"
BreakJump == 100
\* "Bridging a Hole": jump < 50
BridgeJump == 50

\* safeMapY: mapY clamped to [-10000, 10000]
safeMapY(t, y) ==
    IF y = NaN THEN NaN
    ELSE IF y = PosInf THEN R(-10000)
    ELSE IF y = NegInf THEN R(10000)
    ELSE RMax(R(-10000), RMin(R(10000), mapY(t, y)))

\* isValid(x, y): finite and inside the domain
isValid(domain, x, y) ==
    /\ isFinite(y)
    /\ domain # NullR => ~(Lt(x, domain[1]) \/ Gt(x, domain[2]))

\* the locals of one plotSegment call: d, started and the primitives
\* pushed so far (acc), the midpoint xm and the value ym there, the pixel
\* positions of the endpoints and of the midpoint, and the validity flags
LocalsMid(k, acc, x1, y1, x2, y2, xm, ym) ==
    [ acc |-> acc, xm |-> xm, ym |-> ym,
      p1X |-> mapX(k.t, x1), p1Y |-> safeMapY(k.t, y1),
      p2X |-> mapX(k.t, x2), p2Y |-> safeMapY(k.t, y2),
      pmY |-> safeMapY(k.t, ym),
      v1 |-> isValid(k.domain, x1, y1), v2 |-> isValid(k.domain, x2, y2),
      vm |-> isValid(k.domain, xm, ym) ]
LocalsAt(k, acc, x1, y1, x2, y2, xm) ==
    LocalsMid(k, acc, x1, y1, x2, y2, xm, fnAt(k.fn, k.par, xm))
Locals(k, acc, x1, y1, x2, y2) == LocalsAt(k, acc, x1, y1, x2, y2, Half(Add(x1, x2)))

\* the recursion criteria without the steep slope check
SplitNoJump(height, q) ==
    IF q.v1 # q.v2 THEN TRUE
    ELSE IF q.v1 /\ q.v2 /\ ~q.vm THEN TRUE
    ELSE IF q.v1 /\ q.v2 /\ q.vm
    THEN Gt(RAbs(Sub(q.pmY, Add(q.p1Y, Half(Sub(q.p2Y, q.p1Y))))), TOLERANCE)
    ELSE ~q.v1 /\ ~q.v2 /\ q.vm

\* "A. Recursion Criteria" (inside "if (depth < MAX_DEPTH)"): split
Split(height, q) ==
    IF q.v1 # q.v2 THEN TRUE
    ELSE IF q.v1 /\ q.v2 /\ ~q.vm THEN TRUE
    ELSE IF q.v1 /\ q.v2 /\ q.vm
    THEN \/ Gt(RAbs(Sub(q.pmY, Add(q.p1Y, Half(Sub(q.p2Y, q.p1Y))))), TOLERANCE)
         \/ Gt(RAbs(Sub(q.p2Y, q.p1Y)), R(height))
    ELSE ~q.v1 /\ ~q.v2 /\ q.vm

\* d += "M p1X p1Y" unless started, d += "L p2X p2Y", and the primitive
\* pushed to plotData
LineTo(k, q) ==
    [ d |-> (IF q.acc.started THEN q.acc.d ELSE Append(q.acc.d, <<"M", q.p1X, q.p1Y>>))
              \o << <<"L", q.p2X, q.p2Y>> >>,
      started |-> TRUE,
      prims |-> Append(q.acc.prims,
                       [ type |-> "fn", index |-> k.idx, x1 |-> q.p1X, y1 |-> q.p1Y,
                         x2 |-> q.p2X, y2 |-> q.p2Y, domain |-> k.domain ]) ]

\* "B. Base Case - Draw or Move"
BaseCase(k, q) ==
    IF q.v1 /\ q.v2
    THEN IF Lt(RAbs(Sub(q.p2Y, q.p1Y)), R(BreakJump))
         THEN LineTo(k, q)
         ELSE [q.acc EXCEPT !.started = FALSE]
    ELSE IF q.v1 /\ q.v2 /\ ~q.vm
    THEN IF Lt(RAbs(Sub(q.p2Y, q.p1Y)), R(BridgeJump))
         THEN LineTo(k, q)
         ELSE [q.acc EXCEPT !.started = FALSE]
    ELSE [q.acc EXCEPT !.started = FALSE]

\* whether plotSegment bisects at this depth, q its locals
Bisects(k, q, depth) == depth < MAX_DEPTH /\ Split(k.t.height, q)

\* plotSegment(x1, y1, x2, y2, depth): k holds what the closure captures
\* (the expression fn, the parameters par, the domain or null, the
\* transform t, the item's idx); the result is d, started and the
\* primitives pushed after the call
RECURSIVE plotSegment(_, _, _, _, _, _, _)
\* the second recursive call, acc the result of the first (the test makes
\* that result a value before the right half is entered)
plotRight(k, acc, x1, y1, x2, y2, depth) ==
    IF acc.started \in BOOLEAN THEN plotSegment(k, acc, x1, y1, x2, y2, depth) ELSE acc

plotSegmentWith(k, x1, y1, x2, y2, depth, q) ==
    IF Bisects(k, q, depth)
    THEN plotRight(k, plotSegment(k, q.acc, x1, y1, q.xm, q.ym, depth + 1),
                   q.xm, q.ym, x2, y2, depth + 1)
    ELSE BaseCase(k, q)

plotSegment(k, acc, x1, y1, x2, y2, depth) ==
    plotSegmentWith(k, x1, y1, x2, y2, depth, Locals(k, acc, x1, y1, x2, y2))

\* 0 <= r < 1e-9, and r > 1e-9
Below1e9(r) == r[1] >= 0 /\ r[1] <= (r[2] - 1) \div 1000000000
Above1e9(r) == r[1] > r[2] \div 1000000000

\* evalEdge(x, isMin, isMax); eps = 1e-6
EdgeEps == Frac(1, 1000000)
evalEdgeFrom(k, x, isMin, isMax, val) ==
    IF isFinite(val) THEN val
    ELSE IF isMax THEN fnAt(k.fn, k.par, Sub(x, EdgeEps))
    ELSE IF isMin THEN fnAt(k.fn, k.par, Add(x, EdgeEps))
    ELSE val
evalEdge(k, x, isMin, isMax) == evalEdgeFrom(k, x, isMin, isMax, fnAt(k.fn, k.par, x))

\* const sampleStep = this.config.sampleStep || 2
DefaultSampleStep == 2
SampleStep(c) == IF "sampleStep" \in DOMAIN c THEN c.sampleStep ELSE DefaultSampleStep

\* what the sampler of one function item works with: the expression, the
\* parameters, the domain (NullR: none), the transform, the item's index,
\* the coarse step dx and the range [rMin, rMax]
SamplerOf(c, par, t, item, idx) ==
    LET domain == IF "domain" \in DOMAIN item
                  THEN <<_eval(par, item.domain[1]), _eval(par, item.domain[2])>>
                  ELSE NullR
    IN  [ fn |-> item.fn, par |-> par, domain |-> domain, t |-> t, idx |-> idx,
          dx |-> Mul(Sub(t.xMax, t.xMin), Frac(SampleStep(c), t.width)),
          rMin |-> IF domain # NullR THEN RMax(t.xMin, domain[1]) ELSE t.xMin,
          rMax |-> IF domain # NullR THEN RMin(t.xMax, domain[2]) ELSE t.xMax ]

\* the loop before its first step: curr = rMin, d = "", started = false
LoopStart(k) ==
    [ curr |-> k.rMin, acc |-> [d |-> << >>, started |-> FALSE, prims |-> << >>] ]

\* "while (curr < rMax - 1e-9)", inside "if (rMin < rMax)"
LoopGoes(k, lp) == Lt(k.rMin, k.rMax) /\ Above1e9(Sub(k.rMax, lp.curr))

\* next of the coarse step that starts at curr
NextOf(k, curr) ==
    LET next == Add(curr, k.dx)
    IN  IF Gt(next, k.rMax) \/ Below1e9(RAbs(Sub(next, k.rMax))) THEN k.rMax ELSE next

\* plotSegment(x1, y1, x2, y2, depth) as a call c: its arguments and d,
\* started and the primitives pushed on entry
Call(k, c) == plotSegment(k, c.acc, c.x1, c.y1, c.x2, c.y2, c.depth)
LocalsOf(k, c) == Locals(k, c.acc, c.x1, c.y1, c.x2, c.y2)
\* "plotSegment(x1, y1, xm, ym, depth + 1)"
LeftCall(c, q) ==
    [ acc |-> c.acc, x1 |-> c.x1, y1 |-> c.y1, x2 |-> q.xm, y2 |-> q.ym,
      depth |-> c.depth + 1 ]
\* "plotSegment(xm, ym, x2, y2, depth + 1)", entered when the first returns
RightCall(k, c, q) ==
    [ acc |-> Call(k, LeftCall(c, q)), x1 |-> q.xm, y1 |-> q.ym, x2 |-> c.x2,
      y2 |-> c.y2, depth |-> c.depth + 1 ]

\* the locals of one pass of the coarse loop
CoarseSamplesAt(k, curr, next, yStart, yEnd, xMid, yMid) ==
    [ curr |-> curr, next |-> next, yStart |-> yStart, yEnd |-> yEnd,
      v1 |-> isValid(k.domain, curr, yStart), v2 |-> isValid(k.domain, next, yEnd),
      vm |-> isValid(k.domain, xMid, yMid) ]
CoarseSamples(k, curr, next) ==
    CoarseSamplesAt(k, curr, next,
        evalEdge(k, curr, k.domain # NullR /\ Below1e9(RAbs(Sub(curr, k.domain[1]))), FALSE),
        evalEdge(k, next, FALSE, k.domain # NullR /\ Below1e9(RAbs(Sub(next, k.domain[2])))),
        Half(Add(curr, next)), fnAt(k.fn, k.par, Half(Add(curr, next))))

\* "if (v1 || v2 || vm)"
CoarseDraws(m) == m.v1 \/ m.v2 \/ m.vm

\* "plotSegment(curr, yStart, next, yEnd, 0)", after the move command of
\* "if (v1 && !started)"
FirstCall(k, acc, m) ==
    [ acc |-> IF m.v1 /\ ~acc.started
              THEN [acc EXCEPT !.d = Append(@, <<"M", mapX(k.t, m.curr), safeMapY(k.t, m.yStart)>>),
                               !.started = TRUE]
              ELSE acc,
      x1 |-> m.curr, y1 |-> m.yStart, x2 |-> m.next, y2 |-> m.yEnd, depth |-> 0 ]

\* the body of the coarse loop from the samples on
CoarseBody(k, acc, m) ==
    IF CoarseDraws(m) THEN Call(k, FirstCall(k, acc, m))
    ELSE [acc EXCEPT !.started = FALSE]

\* one pass of the coarse loop
CoarseStepTo(k, lp, next) ==
    [curr |-> next, acc |-> CoarseBody(k, lp.acc, CoarseSamples(k, lp.curr, next))]
CoarseStep(k, lp) == CoarseStepTo(k, lp, NextOf(k, lp.curr))

\* the coarse loop to its end
RECURSIVE SampleLoop(_, _)
SampleLoop(k, lp) == IF LoopGoes(k, lp) THEN SampleLoop(k, CoarseStep(k, lp)) ELSE lp

----------------------------------------------------------------------------
(* draw(): the geometry cache (plotData) of the data items *)

\* "Cache Vertical Line": the primitives of item.x (no item.range)
VerticalPrims(t, par, item, idx) ==
    IF "x" \notin DOMAIN item THEN << >>
    ELSE LET valX   == _eval(par, item.x)
             px     == mapX(t, valX)
             yStart == R(t.padding)
             yEnd   == R(t.height - t.padding)
         IN  IF Ge(px, R(t.padding)) /\ Le(px, R(t.width - t.padding)) /\ Gt(yEnd, yStart)
             THEN << [type |-> "vertical", index |-> idx, x1 |-> px, y1 |-> yStart,
                      x2 |-> px, y2 |-> yEnd, val |-> valX] >>
             ELSE << >>

\* "Cache Point": the primitives of item.points
RECURSIVE PointPrims(_, _, _, _)
PointPrims(t, par, pts, idx) ==
    IF pts = << >> THEN << >>
    ELSE LET valX == _eval(par, Head(pts)[1])
             valY == _eval(par, Head(pts)[2])
             px   == mapX(t, valX)
             py   == mapY(t, valY)
             here == IF /\ Ge(px, R(-50)) /\ Le(px, R(t.width + 50))
                        /\ Ge(py, R(-50)) /\ Le(py, R(t.height + 50))
                     THEN << [type |-> "point", index |-> idx, cx |-> px, cy |-> py,
                              valX |-> valX, valY |-> valY] >>
                     ELSE << >>
         IN  here \o PointPrims(t, par, Tail(pts), idx)

\* the elements appended to dataGroup with the primitives above: the line of
\* a vertical primitive, the circle of a point primitive
ElementOf(prim) ==
    IF prim.type = "vertical"
    THEN [ tag |-> "line", index |-> prim.index, x1 |-> prim.x1, y1 |-> prim.y1,
           x2 |-> prim.x2, y2 |-> prim.y2 ]
    ELSE [ tag |-> "circle", index |-> prim.index, cx |-> prim.cx, cy |-> prim.cy ]
ElementsOf(prims) == [i \in DOMAIN prims |-> ElementOf(prims[i])]

\* _addWarning(msg): "if (!this.warnings.includes(msg)) this.warnings.push(msg)".
\* A message is the tuple of the pieces of its template string.
\* a push without the test of includes
_pushWarning(warnings, msg) == Append(warnings, msg)
_addWarning(warnings, msg) ==
    IF \E i \in DOMAIN warnings : warnings[i] = msg THEN warnings
    ELSE Append(warnings, msg)

\* e.message of the error a function item's expression raises, in pieces;
\* none when it compiles and the test call f(0) returns
FnError(fn) ==
    IF fn \in SyntaxErrors THEN <<"Unexpected token ';'">>
    ELSE IF fn \in ReferenceErrors
    THEN <<"Function '", fn, "' error: ", "foo is not defined">>
    ELSE << >>

\* what draw() has made when it reaches a data item: this.plotData, the
\* children of dataGroup, this.warnings, and whether an exception has left
\* the forEach
NoOutput(warnings) ==
    [ plotData |-> << >>, scene |-> << >>, warnings |-> warnings, threw |-> FALSE ]

\* "if (item.fn)": the task of the function itself, inside its try / catch
FnOutput(o, idx, lp) ==
    [o EXCEPT !.plotData = @ \o lp.acc.prims,
              !.scene = Append(@, [tag |-> "path", index |-> idx, d |-> lp.acc.d])]
FnSampled(o, k) == FnOutput(o, k.idx, SampleLoop(k, LoopStart(k)))
FnItem(c, par, t, o, item, idx) ==
    IF FnError(item.fn) # << >>
    THEN [o EXCEPT !.warnings =
            _addWarning(@, <<"Error rendering function '", item.fn, "': ">>
                           \o FnError(item.fn))]
    ELSE FnSampled(o, SamplerOf(c, par, t, item, idx))

\* "if (item.implicit)": new Function("x", "y", ...) and the grid of f(x, y)
\* stand outside any try.  The implicit items of the configurations here are
\* the ones whose expression does not compile or does not evaluate.
ImplicitItem(o, item) == [o EXCEPT !.threw = TRUE]

\* "if (item.x !== undefined)" and "if (item.points)"
MarksOf(t, par, item, idx) ==
    VerticalPrims(t, par, item, idx)
        \o (IF "points" \in DOMAIN item
            THEN PointPrims(t, par, item.points, idx) ELSE << >>)
MarkItem(o, prims) ==
    [o EXCEPT !.plotData = @ \o prims, !.scene = @ \o ElementsOf(prims)]

\* the body of data.forEach((item, idx) => ...)
AfterFn(c, par, t, o, item, idx) ==
    IF "fn" \in DOMAIN item THEN FnItem(c, par, t, o, item, idx) ELSE o
AfterImplicit(o, item) ==
    IF "implicit" \in DOMAIN item THEN ImplicitItem(o, item) ELSE o
AfterMarks(t, par, o, item, idx) ==
    IF o.threw THEN o ELSE MarkItem(o, MarksOf(t, par, item, idx))
DrawItem(c, par, t, o, item, idx) ==
    AfterMarks(t, par, AfterImplicit(AfterFn(c, par, t, o, item, idx), item), item, idx)

\* config.data.forEach from the item of index idx on
RECURSIVE DataPrims(_, _, _, _, _, _)
DataPrims(c, par, t, o, data, idx) ==
    IF data = << >> \/ o.threw THEN o
    ELSE DataPrims(c, par, t, DrawItem(c, par, t, o, Head(data), idx), Tail(data), idx + 1)

\* "this.plotData = []" and the data section of draw()
DrawPlotData(c, par, t, warnings) == DataPrims(c, par, t, NoOutput(warnings), c.data, 0)

----------------------------------------------------------------------------
(* Hit testing *)

Clamp01(t) == IF Lt(t, R(0)) THEN R(0) ELSE IF Gt(t, R(1)) THEN R(1) ELSE t

\* _projectPointOnSegment: the projection {x, y} and the offset (ex, ey)
\* from it to (px, py), whose hypot is dist
Projection(px, py, projX, projY) ==
    [x |-> projX, y |-> projY, ex |-> Sub(px, projX), ey |-> Sub(py, projY)]

ProjectAt(px, py, x1, y1, x2, y2, t) ==
    Projection(px, py, Add(x1, Mul(t, Sub(x2, x1))), Add(y1, Mul(t, Sub(y2, y1))))

ProjectWith(px, py, x1, y1, x2, y2, l2) ==
    IF l2 = R(0) THEN Projection(px, py, x1, y1)
    ELSE ProjectAt(px, py, x1, y1, x2, y2,
                   Clamp01(Div(Add(Mul(Sub(px, x1), Sub(x2, x1)),
                                   Mul(Sub(py, y1), Sub(y2, y1))), l2)))

_projectPointOnSegment(px, py, x1, y1, x2, y2) ==
    ProjectWith(px, py, x1, y1, x2, y2,
                Add(Mul(Sub(x2, x1), Sub(x2, x1)), Mul(Sub(y2, y1), Sub(y2, y1))))

\* the limitToIndex argument when it is not given
NoLimit == -1

\* the candidate of one cached primitive
Candidate(item, x, y) ==
    IF item.type = "point"
    THEN [x |-> item.cx, y |-> item.cy, ex |-> Sub(x, item.cx), ey |-> Sub(y, item.cy)]
    ELSE _projectPointOnSegment(x, y, item.x1, item.y1, item.x2, item.y2)

\* the step of the forEach with "dist <= minDist": the last of the nearest
CloserOrEqual(item, cand, dist2, limitToIndex, match) ==
    IF limitToIndex # NoLimit /\ item.index # limitToIndex THEN match
    ELSE IF /\ HypotBelow(cand.ex, cand.ey, Threshold)
            /\ (match = Null \/ ~LtPos(match.dist2, dist2))
         THEN Merge(item, [x |-> cand.x, y |-> cand.y, dist2 |-> dist2])
         ELSE match

\* one step of the forEach of _getClosestPointOnGraph: the best match after
\* the primitive item, whose candidate is cand at squared distance dist2
\* (match = Null: minDist = Infinity)
Closer(item, cand, dist2, limitToIndex, match) ==
    IF limitToIndex # NoLimit /\ item.index # limitToIndex THEN match
    ELSE IF /\ HypotBelow(cand.ex, cand.ey, Threshold)
            /\ (match = Null \/ LtPos(dist2, match.dist2))
         THEN Merge(item, [x |-> cand.x, y |-> cand.y, dist2 |-> dist2])
         ELSE match

CloserBy(item, cand, limitToIndex, match) ==
    Closer(item, cand, Hypot2(cand.ex, cand.ey), limitToIndex, match)

\* the forEach from primitive i on, with the best match so far
RECURSIVE ClosestFrom(_, _, _, _, _, _)
ClosestFrom(pd, i, x, y, limitToIndex, match) ==
    IF i > Len(pd) THEN match
    ELSE ClosestFrom(pd, i + 1, x, y, limitToIndex,
                     CloserBy(pd[i], Candidate(pd[i], x, y), limitToIndex, match))

_getClosestPointOnGraph(pd, x, y, limitToIndex) ==
    IF Len(pd) = 0 THEN Null ELSE ClosestFrom(pd, 1, x, y, limitToIndex, Null)

\* match.valX = unmapX(match.x); match.valY = unmapY(match.y)
WithGraphCoords(t, match) ==
    Merge(match, [valX |-> unmapX(t, match.x), valY |-> unmapY(t, match.y)])

\* _getPointAtGraphX(valX, index), no interpolation: "if (!item.fn) return
\* null", valX clamped to the domain, null when f throws or is not finite
ClampToDomain(par, item, valX) ==
    IF "domain" \in DOMAIN item
    THEN RMin(RMax(valX, _eval(par, item.domain[1])), _eval(par, item.domain[2]))
    ELSE valX
PointAtGraphX(par, t, item, index, valX, valY) ==
    IF ~isFinite(valY) THEN Null
    ELSE [ type |-> "fn", index |-> index, x |-> mapX(t, valX), y |-> mapY(t, valY),
           valX |-> valX, valY |-> valY, dist2 |-> R(0) ]
PointAtClamped(par, t, item, index, valX) ==
    PointAtGraphX(par, t, item, index, valX, fnAt(item.fn, par, valX))
_getPointAtGraphX(c, par, t, valX, index) ==
    IF "fn" \notin DOMAIN c.data[index + 1] THEN Null
    ELSE IF FnError(c.data[index + 1].fn) # << >> THEN Null
    ELSE PointAtClamped(par, t, c.data[index + 1], index,
                        ClampToDomain(par, c.data[index + 1], valX))

\* _getSlopeAt(match): the central difference of an explicit function with
\* eps = 1e-4, Infinity on a vertical line, NaN elsewhere
SlopeEps == Frac(1, 10000)
SlopeOf(y1, y2) ==
    IF ~isFinite(y1) \/ ~isFinite(y2) THEN NaN
    ELSE Div(Sub(y2, y1), Mul(R(2), SlopeEps))
SlopeOfFn(fn, par, gx) ==
    IF FnError(fn) # << >> THEN NaN
    ELSE SlopeOf(fnAt(fn, par, Sub(gx, SlopeEps)), fnAt(fn, par, Add(gx, SlopeEps)))
_getSlopeAt(c, par, t, match) ==
    IF match = Null THEN NaN
    ELSE IF match.type = "fn"
    THEN SlopeOfFn(c.data[match.index + 1].fn, par, unmapX(t, match.x))
    ELSE IF match.type = "vertical" THEN PosInf
    ELSE NaN

\* _updateSelectionVisuals(match), "TRACE LOGIC": the trace buffer after it.
\* A point is pushed when tracing is on, the slope is finite and the last
\* point differs from it by more than 1e-6 in x or in y.
TraceEps == Frac(1, 1000000)
FarFrom(lastPt, tx, ty) ==
    Gt(RAbs(Sub(lastPt.x, tx)), TraceEps) \/ Gt(RAbs(Sub(lastPt.y, ty)), TraceEps)
\* a push without the test of the last point
TracePushAlways(trace, tx, ty) == Append(trace, [x |-> tx, y |-> ty])
TracePush(trace, tx, ty) ==
    IF trace = << >> \/ FarFrom(trace[Len(trace)], tx, ty)
    THEN Append(trace, [x |-> tx, y |-> ty])
    ELSE trace
TraceWith(trace, isTracing, match, m) ==
    IF isTracing /\ isFinite(m) THEN TracePush(trace, match.valX, m) ELSE trace
_updateSelectionVisuals(c, s, match) ==
    IF s.selectionMode = "tangent" /\ match # Null
    THEN [s EXCEPT !.derivativeTrace =
            TraceWith(@, s.isTracing, match, _getSlopeAt(c, s.params, s.transform, match))]
    ELSE s

\* checkProx(pt, mx, my)
checkProx(pt, mx, my) ==
    IF pt = Null THEN FALSE
    ELSE HypotBelow(Sub(pt.x, mx), Sub(pt.y, my), ProxThreshold)

----------------------------------------------------------------------------
(* The state of one plot instance *)

VARIABLES
    cfg,               \* this.config
    ready,             \* the constructor has run
    params,            \* this.params
    view,              \* this.view
    transform,         \* this.transform (Null before the first draw)
    plotData,          \* this.plotData
    interactions,      \* this.interactions
    selectionMode,     \* this.selectionMode
    lastPos,           \* lastX, lastY of _initInteractions (<<>>: undefined)
    isPinching,        \* isPinching of _initInteractions
    touch,             \* isTouchActive, touchStartView, touchStartCenter, touchStartDist
    drawn,             \* the view the latest draw() was called with
    warnings,          \* this.warnings
    scene,             \* the children of dataGroup
    threw,             \* the latest handler was left by an exception
    isTracing,         \* this.isTracing
    derivativeTrace,   \* this.derivativeTrace
    nZoom, nMove,      \* the events counted against MaxOps
    ev,                \* the last event handled: [op, p]
    gest,              \* the gestures under way: whether the pointer is down,
                       \* where it went down and where it is, the data item
                       \* the pointer-down pinned (NoLimit: none), and the
                       \* number of touches on the surface
    loop,              \* draw() inside a function item: what the closure of
                       \* plotSegment captures (k) and curr, d, started and the
                       \* primitives pushed at the head of the coarse loop
                       \* (Null: no function item is being sampled)
    call,              \* the plotSegment call under way: x1, y1, x2, y2, depth
                       \* and d, started, primitives on entry (Null: none)
    appl               \* a function of the program applied on its own: its
                       \* arguments, and its result once it has returned
                       \* (Null: none)

vars == <<cfg, ready, params, view, transform, plotData, interactions, selectionMode,
          lastPos, isPinching, touch, drawn, warnings, scene, threw, isTracing,
          derivativeTrace, nZoom, nMove, ev, gest, loop, call, appl>>

\* the program state as one record, for the handlers below
St ==
    [ params |-> params, view |-> view, transform |-> transform, plotData |-> plotData,
      interactions |-> interactions, selectionMode |-> selectionMode,
      lastPos |-> lastPos, isPinching |-> isPinching, touch |-> touch,
      drawn |-> drawn, warnings |-> warnings, scene |-> scene, threw |-> threw,
      isTracing |-> isTracing, derivativeTrace |-> derivativeTrace ]

Apply(s) ==
    /\ params' = s.params
    /\ view' = s.view
    /\ transform' = s.transform
    /\ plotData' = s.plotData
    /\ interactions' = s.interactions
    /\ selectionMode' = s.selectionMode
    /\ lastPos' = s.lastPos
    /\ isPinching' = s.isPinching
    /\ touch' = s.touch
    /\ drawn' = s.drawn
    /\ warnings' = s.warnings
    /\ scene' = s.scene
    /\ threw' = s.threw
    /\ isTracing' = s.isTracing
    /\ derivativeTrace' = s.derivativeTrace

\* constructor: this.view, this.interactions, this.selectionMode, and the
\* closure variables of _initInteractions.  (interactions.startX and startY
\* are written by the pan guard and read nowhere; they are left out.)
InitPlot(configs) ==
    /\ cfg \in configs
    /\ ready = FALSE
    /\ params = cfg.params
    /\ view = NullView
    /\ transform = Null
    /\ plotData = << >>
    /\ interactions =
          [ isDragging |-> FALSE, hasMoved |-> FALSE,
            draggingSelection |-> Null, currentSelection |-> Null,
            slopeP1 |-> Null, slopeP2 |-> Null ]
    /\ selectionMode = "null"
    /\ lastPos = << >>
    /\ isPinching = FALSE
    /\ touch = [ isTouchActive |-> FALSE, touchStartView |-> Null,
                 touchStartCenter |-> NullR, touchStartDist |-> 0 ]
    /\ drawn = NullView
    /\ warnings = << >>
    /\ scene = << >>
    /\ threw = FALSE
    /\ isTracing = FALSE
    /\ derivativeTrace = << >>
    /\ nZoom = 0
    /\ nMove = 0
    /\ ev = [op |-> "new", p |-> << >>]
    /\ gest = [down |-> FALSE, downAt |-> << >>, at |-> << >>, pinned |-> NoLimit,
               nTouch |-> 0]

InitOf(configs) == InitPlot(configs) /\ loop = Null /\ call = Null /\ appl = Null

----------------------------------------------------------------------------
(* draw() *)

IsObject(ds) == ds # Null /\ "ref" \notin DOMAIN ds

Reproject(t, sel) == [sel EXCEPT !.x = mapX(t, sel.valX), !.y = mapY(t, sel.valY)]

\* _restoreSelectionVisuals: the stored selections get the screen position of
\* their graph coordinates.  draggingSelection, when it is an object, is the
\* object currentSelection refers to.
_restoreSelectionVisuals(t, inter) ==
    LET cs == inter.currentSelection
        ds == inter.draggingSelection
        cs2 == IF cs # Null THEN Reproject(t, cs) ELSE cs
        ds2 == IF cs # Null THEN (IF ds = cs THEN cs2 ELSE ds)
               ELSE IF IsObject(ds) THEN Reproject(t, ds) ELSE ds
    IN  [inter EXCEPT
            !.currentSelection = cs2,
            !.draggingSelection = ds2,
            !.slopeP1 = IF @ # Null THEN Reproject(t, @) ELSE @,
            !.slopeP2 = IF @ # Null THEN Reproject(t, @) ELSE @]

\* the calls of _updateSelectionVisuals in _restoreSelectionVisuals: with the
\* selection that was reprojected, then with currentSelection || null
RestoreVisuals(c, s) ==
    LET cs == s.interactions.currentSelection
        ds == s.interactions.draggingSelection
    IN  IF cs # Null
        THEN _updateSelectionVisuals(c, _updateSelectionVisuals(c, s, cs), cs)
        ELSE IF IsObject(ds) THEN _updateSelectionVisuals(c, s, ds)
        ELSE s

\* the same with the new primitives pushed behind the ones of the draw before
DrawnDataMerged(c, s, t, o) ==
    [s EXCEPT !.view = DrawView(c, s.view),
              !.transform = t,
              !.plotData = @ \o o.plotData,
              !.scene = o.scene,
              !.warnings = o.warnings,
              !.threw = o.threw,
              !.drawn = s.view]

\* draw() up to the end of the data section, o what the data section made
DrawnData(c, s, t, o) ==
    [s EXCEPT !.view = DrawView(c, s.view),
              !.transform = t,
              !.plotData = o.plotData,
              !.scene = o.scene,
              !.warnings = o.warnings,
              !.threw = o.threw,
              !.drawn = s.view]

\* "Restore Selection Visuals", which an exception of the data section skips
DrawnFrom(c, s, t, o) ==
    IF o.threw THEN DrawnData(c, s, t, o)
    ELSE RestoreVisuals(c, [DrawnData(c, s, t, o) EXCEPT
                               !.interactions = _restoreSelectionVisuals(t, s.interactions)])

DrawWith(c, s, t) == DrawnFrom(c, s, t, DrawPlotData(c, s.params, t, s.warnings))

draw(c, s) == DrawWith(c, s, DrawTransform(c, s.view))

----------------------------------------------------------------------------
(* _validateConfig *)

VALID_ROOT_KEYS ==
    { "width", "height", "aspectRatio", "cssWidth", "fullWidth", "align",
      "marginLeft", "marginRight", "border", "sliderBorder",
      "xlim", "ylim", "interactive", "theme", "legend", "legendWidth", "legendPosition",
      "padding", "marginBottom", "grid", "gridOpacity", "axisArrows", "axisLabels",
      "xStep", "yStep", "xStepSecondary", "yStepSecondary", "showSecondaryGrid",
      "showGrid", "xNumberStep", "yNumberStep", "showXNumbers", "showYNumbers",
      "showXAxis", "showYAxis", "showXTicks", "showYTicks", "secondaryGridOpacity",
      "sampleStep", "fontSize", "renderOrder", "params", "showSliders", "data",
      "labelWeight", "numberSize", "labelSize", "legendSize",
      "axisLabelWeight", "axisLabelStyle", "labelStyle", "axisLabelOffset",
      "axisUnitMeasures", "boxPlot", "boxPlotPartial", "constrainView",
      "boxNumbersInside", "pointSelection", "slopeSelection", "tangentSelection",
      "slopeLabel", "specifySlope", "derivativeTitle", "derivativeAutoY",
      "hideFunctions", "derivativeYScale", "showDerivative", "traceDerivative",
      "addDerivativePlot", "showDerivativeFunction", "showToolbar",
      "showDerivativeToolbar", "showPoints" }

VALID_DATA_KEYS ==
    { "type", "fn", "implicit", "points", "x", "range", "domain",
      "color", "width", "strokeWidth", "dash", "opacity", "fillColor", "strokeColor",
      "radius", "label", "labelAt", "labelOffset", "labelAnchor",
      "smoothness", "sampling", "showPoints", "pointColor", "pointRadius",
      "pointOpacity", "pointStroke", "pointStrokeWidth" }

\* the keys of the configuration as the JSON gives it: an option that is
\* FALSE here is one the JSON leaves out
Switches ==
    { "showSliders", "constrainView", "equalAspect", "pointSelection",
      "slopeSelection", "tangentSelection", "traceDerivative" }
RootKeys(c) == { key \in DOMAIN c : key \in Switches => c[key] }

\* "for (let key in ...)": a warning for each key outside valid.  (The
\* configurations here have at most one such key in an object, so that the
\* order of the keys does not show.)
RECURSIVE UnknownKeys(_, _, _, _)
UnknownKeys(ws, keys, valid, head) ==
    IF keys \subseteq valid THEN ws
    ELSE LET key == CHOOSE k \in keys : k \notin valid
         IN  UnknownKeys(_addWarning(ws, head \o <<key, "'">>),
                         keys \ {key}, valid, head)

\* "Check Essentials"
HasContent(item) == {"fn", "implicit", "points", "x"} \cap DOMAIN item # {}
ValidateItem(ws, item, i) ==
    IF HasContent(item) THEN ws
    ELSE _addWarning(ws, <<"Data item ", ToString(i), " has no content (missing 'fn', 'points', 'implicit', or 'x').">>)

\* this.config.data.forEach((item, i) => ...), from the item of index i - 1 on
RECURSIVE ValidateData(_, _, _)
ValidateData(ws, data, i) ==
    IF data = << >> THEN ws
    ELSE ValidateData(
            ValidateItem(UnknownKeys(ws, DOMAIN Head(data), VALID_DATA_KEYS,
                                     <<"Unknown data option in item ", ToString(i), ": '">>),
                         Head(data), i),
            Tail(data), i + 1)

\* "this.warnings = []; this._validateConfig()"
_validateConfig(c) ==
    ValidateData(UnknownKeys(<< >>, RootKeys(c), VALID_ROOT_KEYS,
                             <<"Unknown global option: '">>),
                 c.data, 1)

----------------------------------------------------------------------------
(* Constructor *)

\* "if (this.config.interactive || hasSelection)": the toolbar and the
\* pointer, wheel and touch handlers exist
HandlersInstalled(c) == c.interactive = "true" \/ hasSelection(c)

\* the rest of the constructor: _initControlsOverlay ("Default Active if set")
\* and the initial render
constructor(c, s) ==
    draw(c, [s EXCEPT !.selectionMode = IF c.pointSelection THEN "point" ELSE "null",
                      !.warnings = _validateConfig(c)])

Construct ==
    /\ ~ready
    /\ ready' = TRUE
    /\ Apply(constructor(cfg, St))
    /\ ev' = [op |-> "construct", p |-> << >>]
    /\ UNCHANGED <<cfg, nZoom, nMove, gest, loop, call, appl>>

----------------------------------------------------------------------------
(* Slider and toolbar *)

\* _initSliders, input listener: this.params[key] = v; this.draw()
sliderInput(c, s, v) == draw(c, [s EXCEPT !.params.a = v])

SliderInput(v) ==
    /\ ready /\ cfg.showSliders
    /\ v # params.a
    /\ Apply(sliderInput(cfg, St, v))
    /\ ev' = [op |-> "slider", p |-> << >>]
    /\ UNCHANGED <<cfg, ready, nZoom, nMove, gest, loop, call, appl>>

\* the toolbar's zoom(factor)
zoom(c, s, factor) ==
    IF s.transform = Null THEN s
    ELSE LET t == s.transform
             cx == Half(Add(t.xMin, t.xMax))
             cy == Half(Add(t.yMin, t.yMax))
             viewW == Mul(Sub(t.xMax, t.xMin), factor)
             viewH == Mul(Sub(t.yMax, t.yMin), factor)
         IN  draw(c, [s EXCEPT !.view =
                        [ xMin |-> Sub(cx, Half(viewW)), xMax |-> Add(cx, Half(viewW)),
                          yMin |-> Sub(cy, Half(viewH)), yMax |-> Add(cy, Half(viewH)) ]])

\* btnPlus: zoom(0.9), btnMinus: zoom(1.1)
ZoomFactors == { Frac(9, 10), Frac(11, 10) }

\* "if (this.config.interactive !== false)": Zoom In, Zoom Out, Reset View
ZoomButtons(c) == HandlersInstalled(c) /\ c.interactive # "false"

BtnZoom(factor) ==
    /\ ready /\ ZoomButtons(cfg)
    /\ nZoom + nMove < MaxOps
    /\ nZoom' = nZoom + 1
    /\ Apply(zoom(cfg, St, factor))
    /\ ev' = [op |-> "zoom", p |-> factor]
    /\ UNCHANGED <<cfg, ready, nMove, gest, loop, call, appl>>

\* a Reset View that restores the Y limits from xlim
ResetViewFromX(c) ==
    [ xMin |-> IF c.xlim # NullR THEN c.xlim[1] ELSE Frac(-99, 10),
      xMax |-> IF c.xlim # NullR THEN c.xlim[2] ELSE Frac(99, 10),
      yMin |-> IF c.xlim # NullR THEN c.xlim[1] ELSE Frac(-99, 10),
      yMax |-> IF c.xlim # NullR THEN c.xlim[2] ELSE Frac(99, 10) ]

\* the view the Reset View button writes
ResetView(c) ==
    [ xMin |-> IF c.xlim # NullR THEN c.xlim[1] ELSE Frac(-99, 10),
      xMax |-> IF c.xlim # NullR THEN c.xlim[2] ELSE Frac(99, 10),
      yMin |-> IF c.ylim # NullR THEN c.ylim[1] ELSE Frac(-99, 10),
      yMax |-> IF c.ylim # NullR THEN c.ylim[2] ELSE Frac(99, 10) ]

btnReset(c, s) == draw(c, [s EXCEPT !.view = ResetView(c)])

BtnReset ==
    /\ ready /\ ZoomButtons(cfg)
    /\ Apply(btnReset(cfg, St))
    /\ ev' = [op |-> "reset", p |-> << >>]
    /\ UNCHANGED <<cfg, ready, nZoom, nMove, gest, loop, call, appl>>

\* btnPoint
btnPoint(s) ==
    IF s.selectionMode = "point"
    THEN [s EXCEPT !.selectionMode = "null",
                   !.interactions.draggingSelection = Null,
                   !.interactions.currentSelection = Null]
    ELSE [s EXCEPT !.selectionMode = "point",
                   !.interactions.slopeP1 = Null,
                   !.interactions.slopeP2 = Null]

\* btnSlope
btnSlope(s) ==
    IF s.selectionMode = "slope"
    THEN [s EXCEPT !.selectionMode = "null",
                   !.interactions.slopeP1 = Null,
                   !.interactions.slopeP2 = Null]
    ELSE [s EXCEPT !.selectionMode = "slope"]

\* btnTangent
btnTangent(s) ==
    IF s.selectionMode = "tangent"
    THEN [s EXCEPT !.selectionMode = "null"]
    ELSE [s EXCEPT !.selectionMode = "tangent",
                   !.interactions.slopeP1 = Null,
                   !.interactions.slopeP2 = Null]

\* toggleTrace, and clearTrace on a plot without derivative plot
toggleTrace(s) == [s EXCEPT !.isTracing = ~@]
clearTrace(c, s) ==
    _updateSelectionVisuals(c, [s EXCEPT !.derivativeTrace = << >>],
                            s.interactions.currentSelection)

\* btnTrace and btnClean exist with tangentSelection and traceDerivative, and
\* show in tangent mode
TraceButtons(c, s) ==
    c.tangentSelection /\ c.traceDerivative /\ s.selectionMode = "tangent"

BtnTrace ==
    /\ ready /\ TraceButtons(cfg, St)
    /\ Apply(toggleTrace(St))
    /\ ev' = [op |-> "btnTrace", p |-> << >>]
    /\ UNCHANGED <<cfg, ready, nZoom, nMove, gest, loop, call, appl>>

BtnClean ==
    /\ ready /\ TraceButtons(cfg, St)
    /\ Apply(clearTrace(cfg, St))
    /\ ev' = [op |-> "btnClean", p |-> << >>]
    /\ UNCHANGED <<cfg, ready, nZoom, nMove, gest, loop, call, appl>>

BtnPoint ==
    /\ ready /\ cfg.pointSelection
    /\ Apply(btnPoint(St))
    /\ ev' = [op |-> "btnPoint", p |-> << >>]
    /\ UNCHANGED <<cfg, ready, nZoom, nMove, gest, loop, call, appl>>

BtnSlope ==
    /\ ready /\ cfg.slopeSelection
    /\ Apply(btnSlope(St))
    /\ ev' = [op |-> "btnSlope", p |-> << >>]
    /\ UNCHANGED <<cfg, ready, nZoom, nMove, gest, loop, call, appl>>

BtnTangent ==
    /\ ready /\ cfg.tangentSelection
    /\ Apply(btnTangent(St))
    /\ ev' = [op |-> "btnTangent", p |-> << >>]
    /\ UNCHANGED <<cfg, ready, nZoom, nMove, gest, loop, call, appl>>

----------------------------------------------------------------------------
(* _updateRange and the view constraints *)

\* JavaScript truthiness of a number or null
Truthy(r) == r # NullR /\ r # R(0)

\* "Constraints": the rectangle shifted back inside xlim / ylim
ShiftInto(lim, lo, hi) ==
    LET s1 == IF Lt(lo, lim[1]) THEN Sub(lim[1], lo) ELSE R(0)
        lo1 == Add(lo, s1)
        hi1 == Add(hi, s1)
        s2 == IF Gt(hi1, lim[2]) THEN Sub(lim[2], hi1) ELSE R(0)
    IN  <<Add(lo1, s2), Add(hi1, s2)>>

Constrain(c, v) ==
    IF ~c.constrainView THEN v
    ELSE LET x == IF c.xlim # NullR THEN ShiftInto(c.xlim, v.xMin, v.xMax)
                  ELSE <<v.xMin, v.xMax>>
             y == IF c.ylim # NullR THEN ShiftInto(c.ylim, v.yMin, v.yMax)
                  ELSE <<v.yMin, v.yMax>>
         IN  [xMin |-> x[1], xMax |-> x[2], yMin |-> y[1], yMax |-> y[2]]

Shift(v, dx, dy) ==
    [ xMin |-> Add(v.xMin, dx), xMax |-> Add(v.xMax, dx),
      yMin |-> Add(v.yMin, dy), yMax |-> Add(v.yMax, dy) ]

Bounds(t) == [xMin |-> t.xMin, xMax |-> t.xMax, yMin |-> t.yMin, yMax |-> t.yMax]

\* "if (!this.view.xMin && this.transform)": the view _updateRange shifts
SeedView(v, t) == IF ~Truthy(v.xMin) /\ t # Null THEN Bounds(t) ELSE v

_updateRange(c, s, dx, dy) ==
    LET v == SeedView(s.view, s.transform)
    IN  IF v.xMin # NullR
        THEN draw(c, [s EXCEPT !.view = Constrain(c, Shift(v, dx, dy))])
        ELSE [s EXCEPT !.view = v]

----------------------------------------------------------------------------
(* Pointer handlers of _initInteractions *)

RefP1 == [ref |-> "slopeP1"]
RefP2 == [ref |-> "slopeP2"]

\* svg.onpointerdown, the selection part: the new interactions when the
\* handler returns there, Null when it goes on to the Pan Guard
DownSelect(c, inter, mode, mx, my, match) ==
    IF ~(c.pointSelection \/ mode # "null") THEN Null
    ELSE IF mode = "slope"
    THEN IF checkProx(inter.slopeP1, mx, my)
         THEN [inter EXCEPT !.draggingSelection = RefP1]
         ELSE IF checkProx(inter.slopeP2, mx, my)
         THEN [inter EXCEPT !.draggingSelection = RefP2]
         ELSE IF match # Null
         THEN [inter EXCEPT !.slopeP1 = match, !.slopeP2 = match,
                            !.draggingSelection = RefP2]
         ELSE Null
    ELSE IF mode \in {"tangent", "point"}
    THEN IF match # Null
         THEN [inter EXCEPT !.draggingSelection = match,
                            !.currentSelection = match]
         ELSE Null
    ELSE Null

\* the match of a hit, with its graph coordinates
HitMatch(t, hit) == IF hit = Null THEN Null ELSE WithGraphCoords(t, hit)

DownSelection(c, s, mx, my) ==
    DownSelect(c, s.interactions, s.selectionMode, mx, my,
               HitMatch(s.transform,
                        _getClosestPointOnGraph(s.plotData, mx, my, NoLimit)))

\* svg.onpointerdown, p the pointer position.  (An event inside the scroll
\* guard, or of a touch pointer that is not primary, returns at once and
\* leaves the state as it is: a stuttering step.)
PanGuard(c, s, p, sel) ==
    IF sel # Null
    THEN _updateSelectionVisuals(c, [s EXCEPT !.interactions = sel], sel.currentSelection)
    ELSE IF c.interactive # "false"
    THEN [s EXCEPT !.interactions.isDragging = TRUE,
                   !.interactions.hasMoved = FALSE,
                   !.lastPos = p]
    ELSE s

onpointerdown(c, s, p) == PanGuard(c, s, p, DownSelection(c, s, R(p[1]), R(p[2])))

\* the object a selection drag works on: interactions[ds] or ds itself
CurrentObj(inter) ==
    LET ds == inter.draggingSelection
    IN  IF ds = RefP1 THEN inter.slopeP1
        ELSE IF ds = RefP2 THEN inter.slopeP2
        ELSE ds

\* svg.onpointermove, "Priority: Selection Drag"
MoveSelect(inter, ds, match) ==
    IF match = Null THEN inter
    ELSE IF ds = RefP1 THEN [inter EXCEPT !.slopeP1 = match]
    ELSE IF ds = RefP2 THEN [inter EXCEPT !.slopeP2 = match]
    ELSE [inter EXCEPT !.draggingSelection = match, !.currentSelection = match]

\* limitIndex: currentObj ? currentObj.index : undefined
LimitIndex(currentObj) == IF currentObj # Null THEN currentObj.index ELSE NoLimit

MoveMatch(c, s, mx, my, currentObj) ==
    IF currentObj # Null /\ currentObj.type = "fn"
    THEN _getPointAtGraphX(c, s.params, s.transform, unmapX(s.transform, mx),
                           currentObj.index)
    ELSE HitMatch(s.transform,
                  _getClosestPointOnGraph(s.plotData, mx, my, LimitIndex(currentObj)))

\* "if (match)": the selection moves, and _updateSelectionVisuals(match) when
\* it is a tangent or point object
MoveVisuals(c, s, ds, match) ==
    IF match = Null THEN s
    ELSE IF ds \in {RefP1, RefP2}
    THEN [s EXCEPT !.interactions = MoveSelect(@, ds, match)]
    ELSE _updateSelectionVisuals(c, [s EXCEPT !.interactions = MoveSelect(@, ds, match)],
                                 match)

MoveSelection(c, s, mx, my) ==
    MoveVisuals(c, s, s.interactions.draggingSelection,
                MoveMatch(c, s, mx, my, CurrentObj(s.interactions)))

\* svg.onpointermove
onpointermove(c, s, p) ==
    IF s.interactions.draggingSelection # Null
    THEN MoveSelection(c, s, R(p[1]), R(p[2]))
    ELSE IF ~s.interactions.isDragging \/ s.isPinching THEN s
    ELSE LET dx == p[1] - s.lastPos[1]
             dy == p[2] - s.lastPos[2]
             moved == s.interactions.hasMoved
                        \/ Abs(dx) > MoveThreshold \/ Abs(dy) > MoveThreshold
             s1 == [s EXCEPT !.lastPos = p, !.interactions.hasMoved = moved]
             t  == s.transform
         IN  IF t # Null /\ moved
             THEN LET viewW == Sub(t.xMax, t.xMin)
                      viewH == Sub(t.yMax, t.yMin)
                      plotW == t.width - 2 * t.padding
                      plotH == t.height - 2 * t.padding
                      dxUnits == Mul(Frac(dx, plotW), viewW)
                      dyUnits == Mul(Frac(dy, plotH), viewH)
                  IN  _updateRange(c, s1, Neg(dxUnits), dyUnits)
             ELSE s1

\* svg.onpointerup
onpointerup(s) ==
    LET inter == s.interactions
        clear == /\ ~inter.hasMoved /\ inter.draggingSelection = Null
                 /\ (inter.currentSelection # Null \/ inter.slopeP1 # Null
                       \/ inter.slopeP2 # Null)
        i1 == IF clear
              THEN [inter EXCEPT !.currentSelection = Null, !.slopeP1 = Null,
                                 !.slopeP2 = Null]
              ELSE inter
    IN  [s EXCEPT !.interactions =
            [i1 EXCEPT !.isDragging = FALSE, !.draggingSelection = Null]]

\* the data item a pointer-down pins the gesture to (NoLimit: none)
PinnedBy(s2) ==
    LET obj == CurrentObj(s2.interactions)
    IN  IF obj = Null THEN NoLimit ELSE obj.index

PointerDown(p) ==
    /\ ready /\ HandlersInstalled(cfg)
    /\ ~gest.down
    /\ LET s2 == onpointerdown(cfg, St, p)
       IN  /\ Apply(s2)
           /\ gest' = [gest EXCEPT !.down = TRUE, !.downAt = p, !.at = p,
                                   !.pinned = PinnedBy(s2)]
    /\ ev' = [op |-> "down", p |-> << >>]
    /\ UNCHANGED <<cfg, ready, nZoom, nMove, loop, call, appl>>

\* A move while no pointer is down finds neither a pan nor a selection drag
\* under way and returns at once: a stuttering step.
PointerMove(p) ==
    /\ ready /\ HandlersInstalled(cfg)
    /\ gest.down
    /\ LET s2 == onpointermove(cfg, St, p)
       IN  /\ s2.view # view => nZoom + nMove < MaxOps
           /\ nMove' = IF s2.view # view THEN nMove + 1 ELSE nMove
           /\ Apply(s2)
    /\ ev' = [op |-> "move", p |-> << >>]
    /\ gest' = [gest EXCEPT !.at = p]
    /\ UNCHANGED <<cfg, ready, nZoom, loop, call, appl>>

PointerUp ==
    /\ ready /\ HandlersInstalled(cfg)
    /\ gest.down
    /\ Apply(onpointerup(St))
    /\ ev' = [op |-> "up", p |-> << >>]
    /\ gest' = [gest EXCEPT !.down = FALSE, !.downAt = << >>, !.at = << >>,
                             !.pinned = NoLimit]
    /\ UNCHANGED <<cfg, ready, nZoom, nMove, loop, call, appl>>

----------------------------------------------------------------------------
(* Wheel zoom *)

\* zoomFactor = e.deltaY > 0 ? 1.05 : 0.95
WheelFactors == { Frac(21, 20), Frac(19, 20) }

\* "Clamp Zoom Level to limits": newW or newH, at most the configured range
ClampRange(c, lim, n) ==
    IF c.constrainView /\ lim # NullR /\ Gt(n, Sub(lim[2], lim[1]))
    THEN Sub(lim[2], lim[1]) ELSE n

\* a wheel handler that zooms about the centre of the view, as zoom(factor)
onwheelCentred(c, s, p, zoomFactor) ==
    IF c.interactive = "false" \/ s.transform = Null THEN s
    ELSE zoom(c, s, zoomFactor)

\* svg.onwheel
onwheel(c, s, p, zoomFactor) ==
    IF c.interactive = "false" \/ s.transform = Null THEN s
    ELSE LET t == s.transform
             mouseX == unmapX(t, R(p[1]))
             mouseY == unmapY(t, R(p[2]))
             viewW == Sub(t.xMax, t.xMin)
             viewH == Sub(t.yMax, t.yMin)
             newW == ClampRange(c, c.xlim, Mul(viewW, zoomFactor))
             newH == ClampRange(c, c.ylim, Mul(viewH, zoomFactor))
             xFrac == Div(Sub(mouseX, t.xMin), viewW)
             yFrac == Div(Sub(mouseY, t.yMin), viewH)
             newXMin == Sub(mouseX, Mul(xFrac, newW))
             newYMin == Sub(mouseY, Mul(yFrac, newH))
         IN  draw(c, [s EXCEPT !.view =
                Constrain(c, [ xMin |-> newXMin, xMax |-> Add(newXMin, newW),
                               yMin |-> newYMin, yMax |-> Add(newYMin, newH) ])])

Wheel(p, zoomFactor) ==
    /\ ready /\ HandlersInstalled(cfg)
    /\ LET s2 == onwheel(cfg, St, p, zoomFactor)
       IN  /\ s2.view # view => nZoom + nMove < MaxOps
           /\ nZoom' = IF s2.view # view THEN nZoom + 1 ELSE nZoom
           /\ Apply(s2)
    /\ ev' = [op |-> "wheel", p |-> p]
    /\ UNCHANGED <<cfg, ready, nMove, gest, loop, call, appl>>

----------------------------------------------------------------------------
(* Touch handlers *)

\* getTouchCenter(e): the mean of the touches (<<>>: null)
RECURSIVE SumX(_)
SumX(ts) == IF ts = << >> THEN 0 ELSE Head(ts)[1] + SumX(Tail(ts))
RECURSIVE SumY(_)
SumY(ts) == IF ts = << >> THEN 0 ELSE Head(ts)[2] + SumY(Tail(ts))
getTouchCenter(ts) ==
    IF Len(ts) = 0 THEN NullR
    ELSE <<Frac(SumX(ts), Len(ts)), Frac(SumY(ts), Len(ts))>>

\* getTouchDist(e)
getTouchDist(ts) ==
    IF Len(ts) < 2 THEN 1
    ELSE HypotInt(ts[1][1] - ts[2][1], ts[1][2] - ts[2][2])

\* touchStartView = {xMin, xMax, yMin, yMax, width, height}
Snapshot(t) ==
    [ xMin |-> t.xMin, xMax |-> t.xMax, yMin |-> t.yMin, yMax |-> t.yMax,
      width |-> Sub(t.xMax, t.xMin), height |-> Sub(t.yMax, t.yMin) ]

handleTouchStart(s, ts) ==
    IF Len(ts) = 0 THEN s
    ELSE [s EXCEPT
            !.touch = [ isTouchActive |-> TRUE,
                        touchStartView |-> IF s.transform # Null
                                           THEN Snapshot(s.transform)
                                           ELSE s.touch.touchStartView,
                        touchStartCenter |-> getTouchCenter(ts),
                        touchStartDist |-> getTouchDist(ts) ],
            !.isPinching = Len(ts) > 1]

handleTouchMove(c, s, ts) ==
    IF \/ ~s.touch.isTouchActive
       \/ s.interactions.isDragging
       \/ s.transform = Null
       \/ s.touch.touchStartView = Null
       \/ s.touch.touchStartCenter = NullR
       \/ getTouchCenter(ts) = NullR
    THEN s
    ELSE LET tsv == s.touch.touchStartView
             scale == IF Len(ts) > 1 /\ s.touch.touchStartDist > 0
                      THEN Frac(s.touch.touchStartDist, getTouchDist(ts))
                      ELSE R(1)
             newW == Mul(tsv.width, scale)
             newH == Mul(tsv.height, scale)
             cx == Half(Add(tsv.xMin, tsv.xMax))
             cy == Half(Add(tsv.yMin, tsv.yMax))
         IN  draw(c, [s EXCEPT !.view =
                Constrain(c, [ xMin |-> Sub(cx, Half(newW)), xMax |-> Add(cx, Half(newW)),
                               yMin |-> Sub(cy, Half(newH)), yMax |-> Add(cy, Half(newH)) ])])

handleTouchEnd(s, ts) ==
    IF Len(ts) = 0
    THEN [s EXCEPT !.touch.isTouchActive = FALSE, !.isPinching = FALSE]
    ELSE [s EXCEPT
            !.touch.touchStartCenter = getTouchCenter(ts),
            !.touch.touchStartView = IF s.transform # Null
                                     THEN Snapshot(s.transform) ELSE @,
            !.touch.touchStartDist = getTouchDist(ts)]

TouchStart(ts) ==
    /\ ready /\ HandlersInstalled(cfg)
    /\ Len(ts) = gest.nTouch + 1
    /\ Apply(handleTouchStart(St, ts))
    /\ ev' = [op |-> "touchstart", p |-> << >>]
    /\ gest' = [gest EXCEPT !.nTouch = Len(ts)]
    /\ UNCHANGED <<cfg, ready, nZoom, nMove, loop, call, appl>>

TouchMove(ts) ==
    /\ ready /\ HandlersInstalled(cfg)
    /\ Len(ts) > 0 /\ Len(ts) = gest.nTouch
    /\ LET s2 == handleTouchMove(cfg, St, ts)
       IN  /\ s2.view # view => nZoom + nMove < MaxOps
           /\ nMove' = IF s2.view # view THEN nMove + 1 ELSE nMove
           /\ Apply(s2)
    /\ ev' = [op |-> "touchmove", p |-> ts]
    /\ UNCHANGED <<cfg, ready, nZoom, gest, loop, call, appl>>

TouchEnd(ts) ==
    /\ ready /\ HandlersInstalled(cfg)
    /\ Len(ts) + 1 = gest.nTouch
    /\ Apply(handleTouchEnd(St, ts))
    /\ ev' = [op |-> "touchend", p |-> << >>]
    /\ gest' = [gest EXCEPT !.nTouch = Len(ts)]
    /\ UNCHANGED <<cfg, ready, nZoom, nMove, loop, call, appl>>

----------------------------------------------------------------------------

Init == InitOf(ViewConfigs)

\* the events of a plot without selection modes; a pointer gesture and a
\* touch gesture do not overlap
Next ==
    \/ Construct
    \/ \E v \in SliderValues : SliderInput(v)
    \/ \E f \in ZoomFactors : BtnZoom(f)
    \/ BtnReset
    \/ gest.nTouch = 0 /\ \E p \in Positions : PointerDown(p)
    \/ \E p \in Positions : PointerMove(p)
    \/ PointerUp
    \/ \E p \in WheelPositions, f \in WheelFactors : Wheel(p, f)
    \/ ~gest.down /\ \E ts \in TouchLists : TouchStart(ts)
    \/ \E ts \in TouchLists : TouchMove(ts)
    \/ \E ts \in TouchLists : TouchEnd(ts)

Spec == Init /\ [][Next]_vars

InitSel == InitOf(SelConfigs)

\* the events of a plot with selection modes
NextSel ==
    \/ Construct
    \/ \E f \in ZoomFactors : BtnZoom(f)
    \/ BtnReset
    \/ gest.nTouch = 0 /\ \E p \in Positions : PointerDown(p)
    \/ \E p \in Positions : PointerMove(p)
    \/ PointerUp
    \/ \E p \in WheelPositions, f \in WheelFactors : Wheel(p, f)
    \/ ~gest.down /\ \E ts \in TouchLists : TouchStart(ts)
    \/ \E ts \in TouchLists : TouchMove(ts)
    \/ \E ts \in TouchLists : TouchEnd(ts)
    \/ BtnPoint
    \/ BtnSlope
    \/ BtnTangent

SpecSel == InitSel /\ [][NextSel]_vars

----------------------------------------------------------------------------
(* The sampler of a function item, pass by pass and call by call: draw()    *)
(* stopped at the head of the coarse loop of the item, and the plotSegment  *)
(* calls of the pass that starts there.                                     *)

\* a plot of one function item; sampleStep 35 on a canvas 70 wide makes two
\* coarse steps, sampleStep 70 one
FnCfg(item, xlim, ylim, step) ==
    Merge([BaseCfg EXCEPT !.xlim = xlim, !.ylim = ylim, !.data = << item >>],
          [sampleStep |-> step])

Hole == "(x^2 - 1)/(x - 1)"
Ylim10 == <<R(-10), R(10)>>

\* 1/x with the pole strictly inside a coarse step and at a coarse endpoint;
\* 1/x on the domain [0, 8]; the hole of (x^2 - 1)/(x - 1) at a coarse
\* endpoint, at the midpoint of the coarse step, strictly between samples,
\* and at the midpoint of a call of depth 8 on a steep scale; a function
\* defined on [-1, 1] only; a line sampled with a negative sampleStep
SamplerConfigs ==
    { FnCfg([fn |-> "1/x"], <<R(-10), R(8)>>, <<R(-1000), R(1000)>>, 35),
      FnCfg([fn |-> "1/x"], <<R(-10), R(10)>>, Ylim10, 35),
      FnCfg([fn |-> "1/x", domain |-> <<Num(0), Num(8)>>], <<R(-10), R(8)>>, Ylim10, 35),
      FnCfg([fn |-> Hole], <<R(-8), R(10)>>, Ylim10, 35),
      FnCfg([fn |-> Hole], <<R(-1), R(3)>>, Ylim10, 70),
      FnCfg([fn |-> Hole], <<R(-2), R(2)>>, Ylim10, 70),
      FnCfg([fn |-> Hole], <<Frac(-191, 64), Frac(321, 64)>>,
            <<Frac(763, 384), Frac(773, 384)>>, 70),
      FnCfg([fn |-> "0*sqrt(1 - x^2) + x"], <<R(-4), R(4)>>, Ylim10, 70),
      FnCfg([fn |-> "x + 1"], <<R(-10), R(10)>>, Ylim10, -35) }

\* the passes of a coarse loop followed per behaviour
MaxPasses == 4
\* curr is less than MaxPasses steps away from rMin
PassRoom ==
    Lt(RAbs(Sub(loop.lp.curr, loop.k.rMin)), Mul(R(MaxPasses), RAbs(loop.k.dx)))

\* the sampler of the first data item in the constructor's draw()
FirstSampler(c) == SamplerOf(c, c.params, DrawTransform(c, NullView), c.data[1], 0)

InitSampler ==
    /\ InitPlot(SamplerConfigs)
    /\ loop = [k |-> FirstSampler(cfg), lp |-> LoopStart(FirstSampler(cfg))]
    /\ call = Null
    /\ appl = Null

instVars == <<cfg, ready, params, view, transform, plotData, interactions, selectionMode,
              lastPos, isPinching, touch, drawn, warnings, scene, threw, isTracing,
              derivativeTrace, nZoom, nMove, ev, gest>>
plotVars == <<instVars, appl>>

\* the locals of the pass that starts at the head of the loop
PassSamples == CoarseSamples(loop.k, loop.lp.curr, NextOf(loop.k, loop.lp.curr))

\* one pass of "while (curr < rMax - 1e-9)", whole
CoarsePass ==
    /\ call = Null
    /\ LoopGoes(loop.k, loop.lp)
    /\ loop' = [loop EXCEPT !.lp = CoarseStep(loop.k, loop.lp)]
    /\ call' = Null
    /\ UNCHANGED plotVars

\* the pass calls plotSegment(curr, yStart, next, yEnd, 0)
EnterCall ==
    /\ call = Null
    /\ LoopGoes(loop.k, loop.lp)
    /\ CoarseDraws(PassSamples)
    /\ call' = FirstCall(loop.k, loop.lp.acc, PassSamples)
    /\ UNCHANGED <<plotVars, loop>>

\* the call splits and calls plotSegment on its left half
LeftStep ==
    /\ call # Null
    /\ Bisects(loop.k, LocalsOf(loop.k, call), call.depth)
    /\ call' = LeftCall(call, LocalsOf(loop.k, call))
    /\ UNCHANGED <<plotVars, loop>>

\* the left half has returned and the call calls plotSegment on its right half
RightStep ==
    /\ call # Null
    /\ Bisects(loop.k, LocalsOf(loop.k, call), call.depth)
    /\ call' = RightCall(loop.k, call, LocalsOf(loop.k, call))
    /\ UNCHANGED <<plotVars, loop>>

NextSampler ==
    \/ PassRoom /\ CoarsePass
    \/ EnterCall
    \/ LeftStep
    \/ RightStep

SpecSampler == InitSampler /\ [][NextSampler]_vars

----------------------------------------------------------------------------
(* draw() over the data items: warnings, scene, geometry cache and trace *)

\* the trace points per behaviour
MaxTrace == 2

VLine == [x |-> Num(6)]
Pts == [points |-> << <<Num(8), [param |-> "a"]>> >>]
BadFn == [fn |-> "2*("]
RefFn == [fn |-> "foo(x)"]
BadImplicit == [implicit |-> "2*("]
\* an item with a key that is no data option, and one with nothing else
Miskeyed == [x |-> Num(-4), colour |-> "red"]
Empty == [colour |-> "red"]

DataCfg(data) ==
    Merge([BaseCfg EXCEPT !.data = data, !.showSliders = TRUE, !.interactive = "false"],
          [sampleStep |-> 35])

\* a function item that does not compile between two siblings; function
\* items that raise the same and different errors; an implicit item that does
\* not compile between two siblings; validation warnings and a draw warning;
\* a traced tangent on a*x
DrawConfigs ==
    { [DataCfg(<< VLine, BadFn, Pts >>) EXCEPT !.interactive = "true"],
      DataCfg(<< [fn |-> "x + a"], RefFn, BadFn, BadFn, Miskeyed >>),
      DataCfg(<< VLine, BadImplicit, Pts >>),
      [DataCfg(<< Empty, BadFn, VLine >>) EXCEPT !.equalAspect = TRUE],
      [DataCfg(<< [fn |-> "a*x"] >>) EXCEPT !.tangentSelection = TRUE,
                                            !.traceDerivative = TRUE] }

InitDraw == InitOf(DrawConfigs)

\* pointer positions within reach of the line a*x
TracePositions == { <<52, 30>>, <<10, 60>> }

TraceRoom == Len(derivativeTrace) < MaxTrace

NextDraw ==
    \/ Construct
    \/ TraceRoom /\ \E v \in SliderValues : SliderInput(v)
    \/ \E f \in ZoomFactors : BtnZoom(f)
    \/ TraceRoom /\ \E p \in TracePositions : PointerDown(p)
    \/ PointerUp
    \/ BtnTangent
    \/ BtnTrace
    \/ BtnClean

SpecDraw == InitDraw /\ [][NextDraw]_vars

----------------------------------------------------------------------------
(* draw(), implicit item: one cell of the marching squares.  The values of  *)
(* f on the grid are JavaScript numbers: fractions, NaN, Infinity and       *)
(* -Infinity, with the arithmetic of IEEE 754 on the last three.            *)

IsNaN(a) == a = NaN
JsAbs(a) == IF IsNaN(a) THEN NaN ELSE IF ~isFinite(a) THEN PosInf ELSE RAbs(a)
JsAdd(a, b) ==
    IF IsNaN(a) \/ IsNaN(b) THEN NaN
    ELSE IF ~isFinite(a) THEN (IF ~isFinite(b) /\ b # a THEN NaN ELSE a)
    ELSE IF ~isFinite(b) THEN b
    ELSE Add(a, b)
JsMul(a, b) ==
    IF IsNaN(a) \/ IsNaN(b) THEN NaN
    ELSE IF ~isFinite(a) \/ ~isFinite(b)
    THEN (IF a[1] = 0 \/ b[1] = 0 THEN NaN
          ELSE IF (a[1] > 0) = (b[1] > 0) THEN PosInf ELSE NegInf)
    ELSE Mul(a, b)
\* a / b for b >= 0, as lerp divides
JsDiv(a, b) ==
    IF IsNaN(a) \/ IsNaN(b) THEN NaN
    ELSE IF ~isFinite(a) THEN (IF ~isFinite(b) THEN NaN ELSE a)
    ELSE IF ~isFinite(b) THEN R(0)
    ELSE IF b[1] = 0
    THEN (IF a[1] = 0 THEN NaN ELSE IF a[1] > 0 THEN PosInf ELSE NegInf)
    ELSE Div(a, b)

\* "v > 0"
Positive(v) == v = PosInf \/ (isFinite(v) /\ v[1] > 0)

\* c: bit 1 for v0 > 0, 2 for v1, 4 for v2, 8 for v3
CellCode(v) ==
    (IF Positive(v[1]) THEN 1 ELSE 0) + (IF Positive(v[2]) THEN 2 ELSE 0)
        + (IF Positive(v[3]) THEN 4 ELSE 0) + (IF Positive(v[4]) THEN 8 ELSE 0)

\* lerp(v0, v1) = Math.abs(v0) / (Math.abs(v0) + Math.abs(v1))
lerp(v0, v1) == JsDiv(JsAbs(v0), JsAdd(JsAbs(v0), JsAbs(v1)))

\* the cell [xl, xl + dx] x [yb, yb + dy]; v = <<v0, v1, v2, v3>> are the
\* values at its corners (xl, yb), (xr, yb), (xr, yt), (xl, yt)
pB(g, v) == <<JsAdd(g.xl, JsMul(g.dx, lerp(v[1], v[2]))), g.yb>>
pR(g, v) == <<Add(g.xl, g.dx), JsAdd(g.yb, JsMul(g.dy, lerp(v[2], v[3])))>>
pT(g, v) == <<JsAdd(g.xl, JsMul(g.dx, lerp(v[4], v[3]))), Add(g.yb, g.dy)>>
pL(g, v) == <<g.xl, JsAdd(g.yb, JsMul(g.dy, lerp(v[1], v[4])))>>

\* "switch (c)": the segments seg(P1, P2) of the cell, in graph coordinates
CellSegments(g, v, c) ==
    IF c \in {1, 14} THEN << <<pL(g, v), pB(g, v)>> >>
    ELSE IF c \in {2, 13} THEN << <<pB(g, v), pR(g, v)>> >>
    ELSE IF c \in {3, 12} THEN << <<pL(g, v), pR(g, v)>> >>
    ELSE IF c \in {4, 11} THEN << <<pT(g, v), pR(g, v)>> >>
    ELSE IF c = 5 THEN << <<pL(g, v), pT(g, v)>>, <<pB(g, v), pR(g, v)>> >>
    ELSE IF c \in {6, 9} THEN << <<pB(g, v), pT(g, v)>> >>
    ELSE IF c \in {7, 8} THEN << <<pL(g, v), pT(g, v)>> >>
    ELSE IF c = 10 THEN << <<pL(g, v), pB(g, v)>>, <<pT(g, v), pR(g, v)>> >>
    ELSE << >>

\* the body of the loop over the cells: "if (c === 0 || c === 15) continue"
MarchCell(g, v) == CellSegments(g, v, CellCode(v))

\* the values of f at a corner
CornerValues == { R(-3), R(-1), R(0), R(1), R(2), NaN, PosInf }
\* cells of the 60 x 60 grid: of the default view, and of xlim [0, 3],
\* ylim [-30, 30]
Cells ==
    { [xl |-> Frac(-33, 100), yb |-> R(0), dx |-> Frac(33, 100), dy |-> Frac(33, 100)],
      [xl |-> R(1), yb |-> R(-2), dx |-> Frac(1, 20), dy |-> R(1)] }

InitCell ==
    /\ InitPlot({BaseCfg})
    /\ loop = Null
    /\ call = Null
    /\ \E g \in Cells, v \in CornerValues \X CornerValues \X CornerValues \X CornerValues :
          appl = [g |-> g, v |-> v, done |-> FALSE, segs |-> << >>]

\* the cell is marched
March ==
    /\ ~appl.done
    /\ appl' = [appl EXCEPT !.done = TRUE, !.segs = MarchCell(appl.g, appl.v)]
    /\ UNCHANGED <<instVars, loop, call>>

NextCell == March

SpecCell == InitCell /\ [][NextCell]_vars

-----------------------------------------------------------------------------
(* _makeFn: the expression compiler.  An expression is the sequence of its  *)
(* characters; every replace() of the code is a pass over the positions of  *)
(* the expression, each position giving the characters that take its place. *)
(* The parameters are the pairs [key, value] of this.params in insertion    *)
(* order, with keys of one letter and values already printed as numbers.    *)

Digit == {"0", "1", "2", "3", "4", "5", "6", "7", "8", "9"}
LowerCase ==
    {"a", "b", "c", "d", "e", "f", "g", "h", "i", "j", "k", "l", "m",
     "n", "o", "p", "q", "r", "s", "t", "u", "v", "w", "x", "y", "z"}
UpperCase ==
    {"A", "B", "C", "D", "E", "F", "G", "H", "I", "J", "K", "L", "M",
     "N", "O", "P", "Q", "R", "S", "T", "U", "V", "W", "X", "Y", "Z"}
Letter == LowerCase \cup UpperCase
Alnum == Letter \cup Digit
\* \w of a regular expression; \b is between a \w and a non-\w
WordChar == Alnum \cup {"_"}

CharAt(e, i) == IF i \in 1..Len(e) THEN e[i] ELSE ""

RECURSIVE Flatten(_)
Flatten(pieces) ==
    IF pieces = << >> THEN << >> ELSE Head(pieces) \o Flatten(Tail(pieces))

\* (?<![a-zA-Z0-9])(key)(?=[xyt\(])
BeforeVariable(e, key, i) ==
    /\ e[i] = key
    /\ CharAt(e, i - 1) \notin Alnum
    /\ CharAt(e, i + 1) \in {"x", "y", "t", "("}

ParamStar(e, key) ==
    Flatten([i \in 1..Len(e) |->
               IF BeforeVariable(e, key, i) THEN <<e[i], "*">> ELSE <<e[i]>>])

RECURSIVE ParamStars(_, _)
ParamStars(e, ps) ==
    IF ps = << >> THEN e ELSE ParamStars(ParamStar(e, Head(ps).key), Tail(ps))

\* \bkey\b
Standalone(e, key, i) ==
    /\ e[i] = key
    /\ CharAt(e, i - 1) \notin WordChar
    /\ CharAt(e, i + 1) \notin WordChar

ParamValue(e, p) ==
    Flatten([i \in 1..Len(e) |->
               IF Standalone(e, p.key, i)
               THEN <<"(">> \o p.value \o <<")">>
               ELSE <<e[i]>>])

RECURSIVE ParamValues(_, _)
ParamValues(e, ps) ==
    IF ps = << >> THEN e ELSE ParamValues(ParamValue(e, Head(ps)), Tail(ps))

\* (\d)([a-zA-Z(]) -> $1*$2
DigitStar(e) ==
    Flatten([i \in 1..Len(e) |->
               IF e[i] \in Digit /\ CharAt(e, i + 1) \in Letter \cup {"("}
               THEN <<e[i], "*">> ELSE <<e[i]>>])

\* (\))([a-zA-Z0-9(]) -> $1*$2
ParenStar(e) ==
    Flatten([i \in 1..Len(e) |->
               IF e[i] = ")" /\ CharAt(e, i + 1) \in Alnum \cup {"("}
               THEN <<e[i], "*">> ELSE <<e[i]>>])

\* (^|[^a-zA-Z0-9])\-([a-z])\^(\d+), the minus sign at i
NegPowerAt(e, i) ==
    /\ e[i] = "-"
    /\ CharAt(e, i - 1) \notin Alnum
    /\ CharAt(e, i + 1) \in LowerCase
    /\ CharAt(e, i + 2) = "^"
    /\ CharAt(e, i + 3) \in Digit

\* the last digit of the exponent of such a power is at j
NegPowerEnd(e, j) ==
    /\ CharAt(e, j + 1) \notin Digit
    /\ \E i \in 1..(j - 3) :
          NegPowerAt(e, i) /\ \A k \in (i + 3)..j : e[k] \in Digit

\* -> $1-($2^$3)
NegPower(e) ==
    Flatten([i \in 1..Len(e) |->
               IF NegPowerAt(e, i) THEN <<"-", "(">>
               ELSE IF NegPowerEnd(e, i) THEN <<e[i], ")">>
               ELSE <<e[i]>>])

\* \^ -> **
Powers(e) ==
    Flatten([i \in 1..Len(e) |-> IF e[i] = "^" THEN <<"*", "*">> ELSE <<e[i]>>])

WordStart(e, i) == e[i] \in WordChar /\ CharAt(e, i - 1) \notin WordChar

WordEnd(e, i) ==
    CHOOSE j \in i..Len(e) :
        /\ \A k \in i..j : e[k] \in WordChar
        /\ CharAt(e, j + 1) \notin WordChar

WordAt(e, i) == SubSeq(e, i, WordEnd(e, i))

\* the position i is in a word of the expression that is one of the names
InWord(e, i, names) ==
    \E s \in 1..i : WordStart(e, s) /\ i <= WordEnd(e, s) /\ WordAt(e, s) \in names

MathFunctions ==
    { <<"s", "i", "n">>, <<"c", "o", "s">>, <<"t", "a", "n">>,
      <<"a", "s", "i", "n">>, <<"a", "c", "o", "s">>, <<"a", "t", "a", "n">>,
      <<"s", "q", "r", "t">>, <<"l", "o", "g">>, <<"e", "x", "p">>,
      <<"a", "b", "s">>, <<"f", "l", "o", "o", "r">>, <<"c", "e", "i", "l">>,
      <<"r", "o", "u", "n", "d">> }

MathDot == <<"M", "a", "t", "h", ".">>

\* \b(sin|cos|...|round)\b -> Math.$1
MathNames(e) ==
    Flatten([i \in 1..Len(e) |->
               IF WordStart(e, i) /\ WordAt(e, i) \in MathFunctions
               THEN MathDot \o <<e[i]>> ELSE <<e[i]>>])

\* \b(names)\b -> Math.to
MathConstant(e, names, to) ==
    Flatten([i \in 1..Len(e) |->
               IF WordStart(e, i) /\ WordAt(e, i) \in names THEN MathDot \o to
               ELSE IF InWord(e, i, names) THEN << >>
               ELSE <<e[i]>>])

MathPi(e) == MathConstant(e, { <<"p", "i">>, <<"P", "I">> }, <<"P", "I">>)
MathE(e) == MathConstant(e, { <<"e">>, <<"E">> }, <<"E">>)

\* expr.split("="): the first two parts
EqualsAt(e) == { i \in 1..Len(e) : e[i] = "=" }
FirstEquals(e) == CHOOSE i \in EqualsAt(e) : \A j \in EqualsAt(e) : i <= j
SecondEquals(e) ==
    LET rest == { i \in EqualsAt(e) : i > FirstEquals(e) }
    IN  IF rest = {} THEN Len(e) + 1
        ELSE CHOOSE i \in rest : \A j \in rest : i <= j

Equation(e) ==
    IF EqualsAt(e) = {} THEN e
    ELSE <<"(">> \o SubSeq(e, 1, FirstEquals(e) - 1) \o <<")", " ", "-", " ", "(">>
         \o SubSeq(e, FirstEquals(e) + 1, SecondEquals(e) - 1) \o <<")">>

_makeFn(str, ps) ==
    Equation(MathE(MathPi(MathNames(Powers(NegPower(ParenStar(DigitStar(
        ParamValues(ParamStars(str, ps), ps)))))))))

CallOf(name) == name \o <<"(", "x", ")">>

Expressions ==
    { CallOf(name) : name \in MathFunctions }
    \cup { <<"p", "i">>, <<"e">>, <<"2", "p", "i">>,
           <<"x", "(", "x", "+", "1", ")">>,
           <<"2", "x">>,
           <<"a", "x">>,
           <<"a", "(", "x", "+", "1", ")">>,
           <<"(", "x", "+", "1", ")", "(", "x", "-", "1", ")">>,
           <<"-", "x", "^", "2">>,
           <<"x", "^", "2", "+", "y", "^", "2", "=", "1">>,
           <<"a", "*", "a", "t", "a", "n", "(", "x", ")">>,
           <<"t", "(", "t", "-", "1", ")">> }

ParamSets ==
    { << >>,
      << [key |-> "a", value |-> <<"1">>] >>,
      << [key |-> "e", value |-> <<"2">>] >>,
      << [key |-> "s", value |-> <<"-", "2">>] >>,
      << [key |-> "c", value |-> <<"3">>] >>,
      << [key |-> "a", value |-> <<"1">>], [key |-> "b", value |-> <<"0", ".", "5">>] >> }

InitMakeFn ==
    /\ InitPlot({BaseCfg})
    /\ loop = Null
    /\ call = Null
    /\ \E str \in Expressions, ps \in ParamSets :
          appl = [str |-> str, params |-> ps, done |-> FALSE, expr |-> << >>]

\* the expression is compiled
MakeFn ==
    /\ ~appl.done
    /\ appl' = [appl EXCEPT !.done = TRUE, !.expr = _makeFn(appl.str, appl.params)]
    /\ UNCHANGED <<instVars, loop, call>>

NextMakeFn == MakeFn

SpecMakeFn == InitMakeFn /\ [][NextMakeFn]_vars

-----------------------------------------------------------------------------
(* Pointer and touch events of the same plot, in every order: a finger on   *)
(* the plot sends both (pointerdown, then touchstart), and nothing in       *)
(* _initInteractions keeps a mouse from acting while a finger is down.      *)

\* an interactive plot without selection, and one with point selection
GestureConfigs ==
    { BaseCfg,
      [BaseCfg EXCEPT !.pointSelection = TRUE, !.data = SelData] }

InitGesture == InitOf(GestureConfigs)

NextGesture ==
    \/ Construct
    \/ \E p \in Positions : PointerDown(p)
    \/ \E p \in Positions : PointerMove(p)
    \/ PointerUp
    \/ \E ts \in TouchLists : TouchStart(ts)
    \/ \E ts \in TouchLists : TouchMove(ts)
    \/ \E ts \in TouchLists : TouchEnd(ts)

SpecGesture == InitGesture /\ [][NextGesture]_vars

-----------------------------------------------------------------------------
(* The calls of draw(): a plot and the derivative plot it creates, with the *)
(* stack of the calls under way.  A plot is its config (the two keys that   *)
(* decide the calls), its derivativePlot (the number of the instance, 0:    *)
(* undefined), its selectionMode, whether it has a currentSelection, and    *)
(* whether its config.data holds the item 'current-derivative-point'.  A    *)
(* frame of the stack is a call of the constructor, of draw() or of         *)
(* _updateSelectionVisuals(match) on an instance, and where it stands.      *)

\* instances per behaviour
MaxPlots == 3

NestConfigs ==
    { [addDerivativePlot |-> d, tangentSelection |-> t] : d, t \in BOOLEAN }

\* _initDerivativePlot with "delete cfg.addDerivativePlot" left out
DerivativeConfigKept(c) == [c EXCEPT !.tangentSelection = FALSE]

\* _initDerivativePlot: the clone of the config without addDerivativePlot and
\* without the selection modes
DerivativeConfig(c) ==
    [c EXCEPT !.addDerivativePlot = FALSE, !.tangentSelection = FALSE]

NewInstance(c) ==
    [ config |-> c, derivativePlot |-> 0, selectionMode |-> "none",
      selected |-> FALSE, dot |-> FALSE ]

\* match: the argument of _updateSelectionVisuals; child: the instance the
\* constructor has created
Frame(fn, inst, pc) ==
    [fn |-> fn, inst |-> inst, pc |-> pc, match |-> FALSE, child |-> 0]

Top == appl.stack[Len(appl.stack)]
Running(fn, pc) == appl.stack # << >> /\ Top.fn = fn /\ Top.pc = pc

\* the running call moves on to pc
Goto(stack, pc) == [stack EXCEPT ![Len(stack)].pc = pc]
\* the running call moves on to pc after the call f
CallThen(stack, pc, f) == Append(Goto(stack, pc), f)

NestStep(plots, stack) ==
    /\ appl' = [plots |-> plots, stack |-> stack]
    /\ UNCHANGED <<instVars, loop, call>>

InitNest ==
    /\ InitPlot({BaseCfg})
    /\ loop = Null
    /\ call = Null
    /\ appl = [plots |-> << >>, stack |-> << >>]

\* new MatephisPlot(container, config) of the page
NewPlot(c) ==
    /\ appl.plots = << >>
    /\ NestStep(<<NewInstance(c)>>, <<Frame("constructor", 1, "draw")>>)

\* constructor: this.draw()
ConstructorDraws ==
    /\ Running("constructor", "draw")
    /\ NestStep(appl.plots,
                CallThen(appl.stack, "derivative", Frame("draw", Top.inst, "body")))

\* constructor: if (this.config.addDerivativePlot) this._initDerivativePlot(),
\* which calls new MatephisPlot(div, JSON.stringify(cfg)); no more than
\* MaxPlots instances are created
InitDerivativePlot ==
    /\ Running("constructor", "derivative")
    /\ IF appl.plots[Top.inst].config.addDerivativePlot /\ Len(appl.plots) < MaxPlots
       THEN LET new == Len(appl.plots) + 1
            IN  NestStep(Append(appl.plots,
                                NewInstance(DerivativeConfig(appl.plots[Top.inst].config))),
                         CallThen([appl.stack EXCEPT ![Len(appl.stack)].child = new],
                                  "assign", Frame("constructor", new, "draw")))
       ELSE NestStep(appl.plots, Goto(appl.stack, "end"))

\* _initDerivativePlot: this.derivativePlot = (the new instance)
AssignDerivativePlot ==
    /\ Running("constructor", "assign")
    /\ NestStep([appl.plots EXCEPT ![Top.inst].derivativePlot = Top.child],
                Goto(appl.stack, "end"))

\* draw(): the scene is cleared and drawn
DrawBody ==
    /\ Running("draw", "body")
    /\ NestStep(appl.plots, Goto(appl.stack, "restore"))

\* draw(): _restoreSelectionVisuals(), which calls
\* _updateSelectionVisuals(sel) for a current selection
RestoreSelection ==
    /\ Running("draw", "restore")
    /\ IF appl.plots[Top.inst].selected
       THEN NestStep(appl.plots,
                     CallThen(appl.stack, "redraw",
                              [Frame("_updateSelectionVisuals", Top.inst, "start")
                                  EXCEPT !.match = TRUE]))
       ELSE NestStep(appl.plots, Goto(appl.stack, "redraw"))

\* _restoreSelectionVisuals: _updateSelectionVisuals(currentSelection || null)
RedrawSelection ==
    /\ Running("draw", "redraw")
    /\ NestStep(appl.plots,
                CallThen(appl.stack, "sync",
                         [Frame("_updateSelectionVisuals", Top.inst, "start")
                             EXCEPT !.match = appl.plots[Top.inst].selected]))

\* draw(): if (this.derivativePlot) this._syncDerivativePlot(), which calls
\* this.derivativePlot.draw()
SyncDerivativePlot ==
    /\ Running("draw", "sync")
    /\ LET d == appl.plots[Top.inst].derivativePlot
       IN  IF d # 0
           THEN NestStep(appl.plots, CallThen(appl.stack, "end", Frame("draw", d, "body")))
           ELSE NestStep(appl.plots, Goto(appl.stack, "end"))

\* _updateSelectionVisuals(match): only the tangent mode draws the derivative
\* plot; m is the slope _getSlopeAt finds
UpdateVisuals ==
    /\ Running("_updateSelectionVisuals", "start")
    /\ LET p == appl.plots[Top.inst]
           d == p.derivativePlot
           drawD == CallThen(appl.stack, "end", Frame("draw", d, "body"))
           done == Goto(appl.stack, "end")
       IN  IF p.selectionMode # "tangent" THEN NestStep(appl.plots, done)
           ELSE IF ~Top.match
           THEN IF d # 0 /\ appl.plots[d].dot
                THEN NestStep([appl.plots EXCEPT ![d].dot = FALSE], drawD)
                ELSE NestStep(appl.plots, done)
           ELSE \E m \in {"NaN", "Infinity", "finite"} :
                  IF m = "NaN" \/ d = 0 THEN NestStep(appl.plots, done)
                  ELSE NestStep([appl.plots EXCEPT ![d].dot = @ \/ m = "finite"], drawD)

\* the running call returns
Return ==
    /\ Running(Top.fn, "end")
    /\ NestStep(appl.plots, SubSeq(appl.stack, 1, Len(appl.stack) - 1))

Idle(i) == appl.stack = << >> /\ i \in 1..Len(appl.plots)

\* a handler of the plot calls this.draw(): slider, zoom, pan, wheel, touch,
\* resize
Redraw(i) ==
    /\ Idle(i)
    /\ NestStep(appl.plots, <<Frame("draw", i, "body")>>)

\* the tangent button: the mode is toggled, _updateSelectionVisuals(null)
TangentButton(i) ==
    /\ Idle(i)
    /\ appl.plots[i].config.tangentSelection
    /\ NestStep([appl.plots EXCEPT ![i].selectionMode =
                    IF @ = "tangent" THEN "none" ELSE "tangent"],
                <<Frame("_updateSelectionVisuals", i, "start")>>)

\* pointer-down on the graph in tangent mode: currentSelection = match,
\* _updateSelectionVisuals(match)
Select(i) ==
    /\ Idle(i)
    /\ appl.plots[i].selectionMode = "tangent"
    /\ NestStep([appl.plots EXCEPT ![i].selected = TRUE],
                <<[Frame("_updateSelectionVisuals", i, "start") EXCEPT !.match = TRUE]>>)

\* pointer-up on the background: currentSelection = null,
\* _updateSelectionVisuals(null)
Deselect(i) ==
    /\ Idle(i)
    /\ appl.plots[i].selected
    /\ NestStep([appl.plots EXCEPT ![i].selected = FALSE],
                <<Frame("_updateSelectionVisuals", i, "start")>>)

NextNest ==
    \/ \E c \in NestConfigs : NewPlot(c)
    \/ ConstructorDraws
    \/ InitDerivativePlot
    \/ AssignDerivativePlot
    \/ DrawBody
    \/ RestoreSelection
    \/ RedrawSelection
    \/ SyncDerivativePlot
    \/ UpdateVisuals
    \/ Return
    \/ \E i \in 1..MaxPlots : Redraw(i)
    \/ \E i \in 1..MaxPlots : TangentButton(i)
    \/ \E i \in 1..MaxPlots : Select(i)
    \/ \E i \in 1..MaxPlots : Deselect(i)

SpecNest == InitNest /\ [][NextNest]_vars

-----------------------------------------------------------------------------
(* _getClosestPointOnGraph on its own: a cache of point and line            *)
(* primitives, a screen point and a limitToIndex.                           *)

\* primitives per cache
MaxCache == 3

PointAt(idx, cx, cy) == [type |-> "point", index |-> idx, cx |-> R(cx), cy |-> R(cy)]
LineAt(idx, x1, y1, x2, y2) ==
    [type |-> "fn", index |-> idx, x1 |-> R(x1), y1 |-> R(y1), x2 |-> R(x2), y2 |-> R(y2)]

\* two points, a vertical segment, a segment of length 0 and a slanted one
HitPrims ==
    { PointAt(0, 50, 30), PointAt(1, 10, 30), LineAt(2, 30, 10, 30, 50),
      LineAt(0, 60, 60, 60, 60), LineAt(1, 10, 70, 50, 90) }

Caches ==
    { pd \in UNION { [1..n -> HitPrims] : n \in 0..MaxCache } :
        \A i, j \in DOMAIN pd : i # j => pd[i] # pd[j] }

\* screen points: at the same distance of two primitives, at 40px of one,
\* beyond the end of a segment, far from everything
HitPositions ==
    { <<30, 30>>, <<40, 30>>, <<90, 30>>, <<30, 90>>, <<30, 80>>, <<69, 0>> }

HitLimits == {NoLimit, 0, 1, 2}

InitHit ==
    /\ InitPlot({BaseCfg})
    /\ loop = Null
    /\ call = Null
    /\ \E pd \in Caches, p \in HitPositions, limit \in HitLimits :
          appl = [pd |-> pd, x |-> R(p[1]), y |-> R(p[2]), limitToIndex |-> limit,
                  done |-> FALSE, match |-> Null]

\* the query is made
HitTest ==
    /\ ~appl.done
    /\ appl' = [appl EXCEPT
                  !.done = TRUE,
                  !.match = _getClosestPointOnGraph(appl.pd, appl.x, appl.y,
                                                    appl.limitToIndex)]
    /\ UNCHANGED <<instVars, loop, call>>

NextHit == HitTest

SpecHit == InitHit /\ [][NextHit]_vars

----------------------------------------------------------------------------
(* Properties of the view *)

AllSet(v) == v.xMin # NullR /\ v.xMax # NullR /\ v.yMin # NullR /\ v.yMax # NullR

\* C1: after the Reset View action the view is exactly the configured xlim
\* and ylim (-9.9 and 9.9 for a limit that is not configured), whatever pans
\* and zooms came before, and the transform of the redraw is built from
\* those bounds.
ResetRestoresLimits ==
    ev.op = "reset" =>
        /\ view = [ xMin |-> IF cfg.xlim # NullR THEN cfg.xlim[1] ELSE Frac(-99, 10),
                    xMax |-> IF cfg.xlim # NullR THEN cfg.xlim[2] ELSE Frac(99, 10),
                    yMin |-> IF cfg.ylim # NullR THEN cfg.ylim[1] ELSE Frac(-99, 10),
                    yMax |-> IF cfg.ylim # NullR THEN cfg.ylim[2] ELSE Frac(99, 10) ]
        /\ Bounds(transform) = EqualAspect(cfg, view)

\* a reset that follows a pan or a zoom
ResetAfterPanZoom == ev.op = "reset" /\ nZoom + nMove > 0

\* C2: a slider change and its redraw leave the four view bounds as they
\* were, whatever pans and zooms produced them; and a draw() called with a
\* view that is set leaves that view as it was given (also with equalAspect).
ViewPersistsAcrossRedraws ==
    [][ /\ ev'.op = "slider" => view' = view
        /\ drawn'.xMin # NullR => view' = drawn' ]_vars

\* a slider change on an equal-aspect plot whose view a pan or zoom has moved
\* away from the configured limits
SliderAfterPanZoom ==
    /\ ev.op = "slider" /\ cfg.equalAspect
    /\ nZoom + nMove > 0 /\ view # ConfigLimits(cfg)

\* a view that has the width and the height of v: v moved as a whole
Translated(v, w) ==
    /\ Sub(w.xMax, w.xMin) = Sub(v.xMax, v.xMin)
    /\ Sub(w.yMax, w.yMin) = Sub(v.yMax, v.yMin)

\* C3: once the view is set, no draw, pan, wheel zoom, touch move, toolbar
\* zoom or reset makes one of its four bounds null again, and a pan of a set
\* view moves the bounds it had (it does not start from other values, also
\* when a bound is 0).
ViewNeverUnsetNorReseeded ==
    [][ /\ AllSet(view) => AllSet(view')
        /\ (ev'.op = "move" /\ AllSet(view) /\ view' # view)
              => Translated(view, view') ]_vars

\* C4: a wheel event at (mx, my) on a plot without constrainView leaves the
\* data-space point under (mx, my) where it was: unmap with the transform
\* before the zoom equals unmap with the transform of the redraw after it.
WheelKeepsFocalPoint ==
    [][ (ev'.op = "wheel" /\ ~cfg.constrainView /\ transform # Null)
          => /\ unmapX(transform', R(ev'.p[1])) = unmapX(transform, R(ev'.p[1]))
             /\ unmapY(transform', R(ev'.p[2])) = unmapY(transform, R(ev'.p[2])) ]_vars

\* a wheel zoom has changed the view of an equal-aspect plot
WheelOnEqualAspect ==
    /\ ev.op = "wheel" /\ cfg.equalAspect /\ ~cfg.constrainView
    /\ nZoom > 0 /\ view # ConfigLimits(cfg)

\* the touch-move handler goes on to write the view
TouchMoveActs ==
    /\ touch.isTouchActive /\ ~interactions.isDragging
    /\ transform # Null /\ touch.touchStartView # Null
    /\ touch.touchStartCenter # NullR

\* C5: a two-finger touch-move whose centre stays where the gesture started
\* leaves the data-space point under that centre where it was, and a
\* touch-move that keeps the distance of the touches translates the view of
\* the gesture's start by the data-space amount of the centre's movement.
PinchAboutFocalPoint ==
    [][ (ev'.op = "touchmove" /\ TouchMoveActs /\ ~cfg.constrainView)
          => LET ct == getTouchCenter(ev'.p)
                 c0 == touch.touchStartCenter
                 tsv == touch.touchStartView
             IN  /\ (Len(ev'.p) = 2 /\ ct = c0)
                       => /\ unmapX(transform', ct[1]) = unmapX(transform, ct[1])
                          /\ unmapY(transform', ct[2]) = unmapY(transform, ct[2])
                 /\ (getTouchDist(ev'.p) = touch.touchStartDist)
                       => view' = Shift(Bounds(tsv),
                                        Neg(Mul(Div(Sub(ct[1], c0[1]), R(cfg.width)), tsv.width)),
                                        Mul(Div(Sub(ct[2], c0[2]), R(cfg.height)), tsv.height))
      ]_vars

\* C6: with constrainView and configured xlim and ylim the view stays inside
\* the limits, whatever pans, wheel zooms, pinches and toolbar zooms occur.
ClampedViewInsideLimits ==
    (ready /\ cfg.constrainView /\ cfg.xlim # NullR /\ cfg.ylim # NullR)
        => /\ Le(cfg.xlim[1], view.xMin) /\ Le(view.xMax, cfg.xlim[2])
           /\ Le(cfg.ylim[1], view.yMin) /\ Le(view.yMax, cfg.ylim[2])

\* C7: a pointer-move of (dx, dy) pixels while panning without constrainView
\* shifts the four view bounds by -dx/plotW*viewW and +dy/plotH*viewH, viewW
\* and viewH the ranges of the transform of the latest draw.
PanShiftsByDelta ==
    [][ ( /\ ev'.op = "move" /\ interactions.isDragging
          /\ interactions.draggingSelection = Null /\ ~isPinching
          /\ ~cfg.constrainView /\ transform # Null )
          => LET dx == gest'.at[1] - gest.at[1]
                 dy == gest'.at[2] - gest.at[2]
                 viewW == Sub(transform.xMax, transform.xMin)
                 viewH == Sub(transform.yMax, transform.yMin)
             IN  view' = Shift(view, Neg(Mul(Frac(dx, PlotW(cfg)), viewW)),
                                     Mul(Frac(dy, PlotH(cfg)), viewH)) ]_vars

----------------------------------------------------------------------------
(* Properties of the selection *)

PointerWheelTouch ==
    {"down", "move", "up", "wheel", "touchstart", "touchmove", "touchend"}

\* C8: on a plot whose configuration does not enable interactive (absent or
\* false), also one that enables a selection mode, no pointer, wheel or touch
\* event changes the view.
ViewFixedUnlessInteractive ==
    [][ (cfg.interactive # "true" /\ ev'.op \in PointerWheelTouch)
          => view' = view ]_vars

\* the index of a stored selection object is the pinned one
PinnedTo(old, new, idx) == (new # old /\ IsObject(new)) => new.index = idx

\* C9: between the pointer-down that hits a primitive and the next
\* pointer-up, every object a pointer-move stores in currentSelection,
\* draggingSelection, slopeP1 or slopeP2 has the data-item index of the
\* primitive hit at pointer-down.
DragStaysOnItem ==
    [][ (ev'.op = "move" /\ gest.pinned # NoLimit)
          => /\ PinnedTo(interactions.currentSelection,
                         interactions'.currentSelection, gest.pinned)
             /\ PinnedTo(interactions.draggingSelection,
                         interactions'.draggingSelection, gest.pinned)
             /\ PinnedTo(interactions.slopeP1, interactions'.slopeP1, gest.pinned)
             /\ PinnedTo(interactions.slopeP2, interactions'.slopeP2, gest.pinned)
      ]_vars

\* C10: a pointer-up clears currentSelection and both slope anchors exactly
\* when the pointer is where its pointer-down was and no selection drag is
\* active; every other pointer-up leaves the selection as it is.
PointerUpClearsOnClickOnly ==
    [][ ev'.op = "up"
          => IF gest.at = gest.downAt /\ interactions.draggingSelection = Null
             THEN /\ interactions'.currentSelection = Null
                  /\ interactions'.slopeP1 = Null
                  /\ interactions'.slopeP2 = Null
             ELSE /\ interactions'.currentSelection = interactions.currentSelection
                  /\ interactions'.slopeP1 = interactions.slopeP1
                  /\ interactions'.slopeP2 = interactions.slopeP2 ]_vars

ModeButtons == {"btnPoint", "btnSlope", "btnTangent"}

\* C11: after a toolbar action that changes selectionMode (entering or
\* leaving point, slope or tangent mode), currentSelection,
\* draggingSelection, slopeP1 and slopeP2 are all null.
ModeChangeClearsSelection ==
    [][ (ev'.op \in ModeButtons /\ selectionMode' # selectionMode)
          => /\ interactions'.currentSelection = Null
             /\ interactions'.draggingSelection = Null
             /\ interactions'.slopeP1 = Null
             /\ interactions'.slopeP2 = Null ]_vars

\* a pointer-down at p in an armed selection mode runs the query for a
\* primitive and finds none within the threshold
DownQueryMisses(p) ==
    /\ selectionMode \in {"slope", "tangent", "point"}
    /\ selectionMode = "slope"
         => /\ ~checkProx(interactions.slopeP1, R(p[1]), R(p[2]))
            /\ ~checkProx(interactions.slopeP2, R(p[1]), R(p[2]))
    /\ _getClosestPointOnGraph(plotData, R(p[1]), R(p[2]), NoLimit) = Null

\* a pointer-move at p of a selection drag runs the query and finds none
MoveQueryMisses(p) ==
    /\ interactions.draggingSelection # Null
    /\ LET currentObj == CurrentObj(interactions)
       IN  /\ ~(currentObj # Null /\ currentObj.type = "fn")
           /\ _getClosestPointOnGraph(plotData, R(p[1]), R(p[2]),
                                      LimitIndex(currentObj)) = Null

\* C12: a pointer-down or pointer-move in an armed selection mode whose
\* query finds no primitive within the threshold leaves the interaction and
\* selection state (drag flags, currentSelection, draggingSelection, slope
\* anchors) and the view as they were.
MissChangesNothing ==
    [][ /\ (ev'.op = "down" /\ DownQueryMisses(gest'.at))
            => (interactions' = interactions /\ view' = view)
        /\ (ev'.op = "move" /\ MoveQueryMisses(gest'.at))
            => (interactions' = interactions /\ view' = view) ]_vars

----------------------------------------------------------------------------
(* Properties of the sampler *)

\* the locals of the plotSegment call under way
CallLocals == LocalsOf(loop.k, call)
\* the call goes to the base case
AtBaseCase == call # Null /\ ~Bisects(loop.k, CallLocals, call.depth)
\* the base case of the call adds a line to the path
CallDraws == Len(Call(loop.k, call).prims) > Len(call.acc.prims)
\* |p2Y - p1Y| of two valid endpoints
Jump(q) == RAbs(Sub(q.p2Y, q.p1Y))

\* the L commands among the first i commands of the path d
LinesUpTo(d, i) == Cardinality({ j \in 1..i : d[j][1] = "L" })
\* every line of the path starts where the command before it ended, so a
\* line that follows a break follows the move command to its own start
RunsAreContiguous(acc) ==
    \A i \in 1..Len(acc.d) :
        acc.d[i][1] = "L" =>
            /\ i > 1
            /\ acc.d[i - 1][2] = acc.prims[LinesUpTo(acc.d, i)].x1
            /\ acc.d[i - 1][3] = acc.prims[LinesUpTo(acc.d, i)].y1
\* no line drawn has its ends on opposite sides of x = 0
NoLineAcrossZero(k, acc) ==
    \A i \in 1..Len(acc.prims) :
        ~(Lt(acc.prims[i].x1, mapX(k.t, R(0))) /\ Gt(acc.prims[i].x2, mapX(k.t, R(0))))
LinesJoinValidSamples ==
    (AtBaseCase /\ CallDraws) =>
        /\ CallLocals.v1 /\ CallLocals.v2
        /\ Lt(Jump(CallLocals), R(BreakJump))

\* C17: a line is added only between two consecutive valid samples whose
\* pixel jump is below the break threshold, no line drawn for 1/x has its
\* ends on opposite sides of the pole, and the line after a break starts a
\* new run with a move command
SamplerNeverCrossesBreak ==
    /\ LinesJoinValidSamples
    /\ loop.k.fn = "1/x" => NoLineAcrossZero(loop.k, loop.lp.acc)
    /\ RunsAreContiguous(loop.lp.acc)

\* the runs of the path d: the move commands followed by a line
Runs(d) == Cardinality({ i \in 1..(Len(d) - 1) : d[i][1] = "M" /\ d[i + 1][1] = "L" })
LoopDone == ~LoopGoes(loop.k, loop.lp)

\* C18: the path of a function with one removable hole is a single run,
\* wherever the hole falls relative to the samples
HoleIsBridged == (loop.k.fn = Hole /\ LoopDone) => Runs(loop.lp.acc.d) = 1

\* C19: in the base case a segment with valid endpoints and an invalid
\* midpoint is drawn only if its pixel jump is below the bridging threshold
\* of 50px, which is smaller than the break threshold of 100px
BridgeUsesTighterThreshold ==
    /\ BridgeJump < BreakJump
    /\ (AtBaseCase /\ CallLocals.v1 /\ CallLocals.v2 /\ ~CallLocals.vm /\ CallDraws)
          => Lt(Jump(CallLocals), R(BridgeJump))

\* the midpoint's pixel deviation from the chord exceeds the tolerance
Deviates(q) ==
    Gt(RAbs(Sub(q.pmY, Add(q.p1Y, Half(Sub(q.p2Y, q.p1Y))))), TOLERANCE)
\* the pixel jump between the endpoints exceeds the canvas height h
JumpOver(q, h) ==
    isFinite(q.p1Y) /\ isFinite(q.p2Y) /\ Gt(Jump(q), R(h))
FourConditions(q, h) ==
    \/ q.v1 # q.v2
    \/ q.v1 /\ q.v2 /\ ~q.vm
    \/ q.v1 /\ q.v2 /\ q.vm /\ Deviates(q)
    \/ JumpOver(q, h)
FiveConditions(q, h) ==
    \/ q.v1 # q.v2
    \/ q.v1 /\ q.v2 /\ ~q.vm
    \/ q.v1 /\ q.v2 /\ q.vm /\ Deviates(q)
    \/ q.v1 /\ q.v2 /\ q.vm /\ JumpOver(q, h)
    \/ ~q.v1 /\ ~q.v2 /\ q.vm

\* C20, as stated: at depth < 8 plotSegment splits iff the validity of the
\* endpoints differs, or both are valid and the midpoint is not, or all
\* three are valid and the midpoint deviates by more than 0.2px, or the
\* pixel jump between the endpoints exceeds the canvas height
SplitsOnFourConditions ==
    (call # Null /\ call.depth < MAX_DEPTH) =>
        (Bisects(loop.k, CallLocals, call.depth)
            <=> FourConditions(CallLocals, loop.k.t.height))

\* C20: at depth < 8 plotSegment splits iff one of the four conditions
\* holds, the jump being tested only when all three samples are valid, or
\* both endpoints are invalid and the midpoint is valid; at depth 8 it
\* never splits
SplitsOnFiveConditions ==
    call # Null =>
        (Bisects(loop.k, CallLocals, call.depth)
            <=> (call.depth < MAX_DEPTH /\ FiveConditions(CallLocals, loop.k.t.height)))
\* a call between two invalid endpoints splits on its valid midpoint
SplitOnValidMidpoint ==
    /\ call # Null
    /\ ~CallLocals.v1 /\ ~CallLocals.v2 /\ CallLocals.vm
    /\ Bisects(loop.k, CallLocals, call.depth)

----------------------------------------------------------------------------
(* Properties of draw() over the data items *)

\* the item's expression is malformed or fails to compile
Malformed(item) ==
    \/ "fn" \in DOMAIN item /\ FnError(item.fn) # << >>
    \/ "implicit" \in DOMAIN item /\ item.implicit \in SyntaxErrors \cup ReferenceErrors

ExprOf(item) == IF "fn" \in DOMAIN item THEN item.fn ELSE item.implicit

\* a warning that quotes the expression
WarnedOf(ws, expr) == \E n \in DOMAIN ws : \E j \in DOMAIN ws[n] : ws[n][j] = expr

\* the elements and the primitives of the item of index idx
SceneOf(sc, idx) == LET Of(e) == e.index = idx IN SelectSeq(sc, Of)

\* what draw() makes of the item alone, with the parameters and the
\* transform of the latest draw
Alone(item, idx) == DrawItem(cfg, params, transform, NoOutput(<< >>), item, idx)

IsolatedAt(i) ==
    IF Malformed(cfg.data[i])
    THEN /\ WarnedOf(warnings, ExprOf(cfg.data[i]))
         /\ SceneOf(scene, i - 1) = << >>
         /\ SceneOf(plotData, i - 1) = << >>
    ELSE /\ SceneOf(scene, i - 1) = Alone(cfg.data[i], i - 1).scene
         /\ SceneOf(plotData, i - 1) = Alone(cfg.data[i], i - 1).plotData

HasMalformed(c) == \E i \in DOMAIN c.data : Malformed(c.data[i])

\* C13: when the data list holds an item whose expression is malformed,
\* draw() returns without an exception, the warnings quote that item's
\* expression, nothing of the item is in the scene or in the geometry cache,
\* and every other item is drawn as it is drawn alone.
ErrorsAreIsolated ==
    (ready /\ HasMalformed(cfg)) =>
        /\ ~threw
        /\ \A i \in DOMAIN cfg.data : IsolatedAt(i)

\* the same for the configurations whose malformed items are function items
FnErrorsAreIsolated ==
    (ready /\ HasMalformed(cfg) /\ \A i \in DOMAIN cfg.data : "implicit" \notin DOMAIN cfg.data[i]) =>
        /\ ~threw
        /\ \A i \in DOMAIN cfg.data : IsolatedAt(i)

\* a redraw of a plot with a function item that does not compile between
\* two siblings
RedrawnAroundBadFn ==
    /\ ev.op = "slider"
    /\ Len(cfg.data) = 3 /\ Malformed(cfg.data[2]) /\ "fn" \in DOMAIN cfg.data[2]
    /\ SceneOf(scene, 0) # << >> /\ SceneOf(scene, 2) # << >>

\* a warning of draw(), as opposed to one of _validateConfig
IsDrawWarning(w) == w[1] = "Error rendering function '"

NoDuplicates(ws) == \A m, n \in DOMAIN ws : ws[m] = ws[n] => m = n
ValidationFirst(ws) ==
    \A m, n \in DOMAIN ws : (IsDrawWarning(ws[m]) /\ ~IsDrawWarning(ws[n])) => n < m
IsPrefix(ws, longer) == Len(ws) <= Len(longer) /\ SubSeq(longer, 1, Len(ws)) = ws

\* C14: at every step the warnings list holds no message twice; once the
\* constructor has run a step only appends to it, so that the messages stay
\* in the order in which they were first raised; and the messages of
\* _validateConfig come before the messages of draw().
WarningsAreDeduplicatedAndOrdered ==
    [][ /\ NoDuplicates(warnings')
        /\ ready => IsPrefix(warnings, warnings')
        /\ ValidationFirst(warnings') ]_vars

\* a redraw of a plot with validation warnings and with two function items
\* that raise the same error
RedrawnWithWarnings ==
    /\ ev.op = "slider"
    /\ \E m, n \in DOMAIN warnings : IsDrawWarning(warnings[m]) /\ ~IsDrawWarning(warnings[n])
    /\ \E i, j \in DOMAIN cfg.data :
          i < j /\ cfg.data[i] = cfg.data[j] /\ Malformed(cfg.data[i])

\* the state after one draw(), and its comparison with the state after a
\* second one right behind it
DrawnOnce == draw(cfg, St)
SameDrawn(once, twice) ==
    /\ twice.scene = once.scene
    /\ twice.plotData = once.plotData
    /\ twice.warnings = once.warnings
    /\ twice.view = once.view
    /\ twice.derivativeTrace = once.derivativeTrace
SameAfterSecond(once) == SameDrawn(once, draw(cfg, once))

\* C15: in every state the constructor has left, a second draw() right
\* after a draw() changes neither the scene, nor the geometry cache, nor the
\* warnings, nor the view, nor the trace buffer.
DrawIsIdempotent == ready => SameAfterSecond(DrawnOnce)

\* tracing is on and the tangent selection is one that draw() adds to a
\* trace that already holds a point
DrawExtendsTrace ==
    /\ ready /\ isTracing
    /\ derivativeTrace # << >>
    /\ Len(DrawnOnce.derivativeTrace) = Len(derivativeTrace) + 1

\* the primitives a draw() pushes with the parameters and the view (the
\* transform) of the state
FreshPlotData == DrawPlotData(cfg, params, transform, << >>).plotData

\* C16: once the constructor has run, plotData holds the primitives that a
\* draw() of the current configuration, parameters and view pushes, these
\* only and in their order, and the index of every primitive is the index of
\* an item of the data list.
PlotDataIsReplaced ==
    ready =>
        /\ plotData = FreshPlotData
        /\ \A i \in DOMAIN plotData :
              plotData[i].index >= 0 /\ plotData[i].index < Len(cfg.data)

\* a redraw with other parameters or another view of a plot with primitives
\* that follow the parameters
RedrawnCache ==
    /\ ev.op \in {"slider", "zoom"}
    /\ \E i \in DOMAIN plotData : plotData[i].type \in {"fn", "point"}

----------------------------------------------------------------------------
(* Termination of the sampler *)

\* 2^n
RECURSIVE Pow2(_)
Pow2(n) == IF n = 0 THEN 1 ELSE 2 * Pow2(n - 1)

\* the lines the pass at the head of the loop adds to the path
LinesOfPass ==
    Len(CoarseStep(loop.k, loop.lp).acc.prims) - Len(loop.lp.acc.prims)

\* the pass at the head of the loop ends nearer to rMax than it starts, or
\* at rMax
PassAdvances ==
    \/ NextOf(loop.k, loop.lp.curr) = loop.k.rMax
    \/ Gt(NextOf(loop.k, loop.lp.curr), loop.lp.curr)

DepthIsBounded == call # Null => call.depth <= MAX_DEPTH
PassIsBounded == (call = Null /\ LoopGoes(loop.k, loop.lp)) => LinesOfPass <= Pow2(MAX_DEPTH)

\* C21: plotSegment is never called with depth above 8, a coarse segment
\* adds at most 2^8 lines, and every pass of the coarse loop advances curr
\* towards rMax, so that the loop reaches its end.
SamplingTerminates ==
    /\ DepthIsBounded
    /\ PassIsBounded
    /\ (call = Null /\ LoopGoes(loop.k, loop.lp)) => PassAdvances

\* the same for the plots with a positive sampleStep
SamplingTerminatesForPositiveStep == SampleStep(cfg) > 0 => SamplingTerminates

\* a call at the depth limit
CallAtMaxDepth == call # Null /\ call.depth = MAX_DEPTH

----------------------------------------------------------------------------
(* Properties of the marching squares *)

\* the edges of a cell: the corners they join (as indices of v0..v3) and the
\* point of the edge at the parameter t from the first corner
CellEdges == { <<1, 2>>, <<2, 3>>, <<4, 3>>, <<1, 4>> }
EdgePoint(g, e, t) ==
    IF e = <<1, 2>> THEN <<Add(g.xl, Mul(t, g.dx)), g.yb>>
    ELSE IF e = <<2, 3>> THEN <<Add(g.xl, g.dx), Add(g.yb, Mul(t, g.dy))>>
    ELSE IF e = <<4, 3>> THEN <<Add(g.xl, Mul(t, g.dx)), Add(g.yb, g.dy)>>
    ELSE <<g.xl, Add(g.yb, Mul(t, g.dy))>>

\* t = |va| / (|va| + |vb|) is a number in [0, 1] and P is the point of the
\* edge at t
AtCrossing(g, e, va, vb, P) ==
    /\ isFinite(va) /\ isFinite(vb)
    /\ Add(RAbs(va), RAbs(vb)) # R(0)
    /\ P = EdgePoint(g, e, Div(RAbs(va), Add(RAbs(va), RAbs(vb))))

\* P lies on an edge whose corners are classified differently, at the
\* interpolation parameter
OnCrossedEdge(g, v, P) ==
    \E e \in CellEdges :
        /\ Positive(v[e[1]]) # Positive(v[e[2]])
        /\ AtCrossing(g, e, v[e[1]], v[e[2]], P)

SegmentCount(c) == IF c \in {0, 15} THEN 0 ELSE IF c \in {5, 10} THEN 2 ELSE 1

FollowsTable(g, v, segs) ==
    /\ Len(segs) = SegmentCount(CellCode(v))
    /\ \A n \in DOMAIN segs :
          OnCrossedEdge(g, v, segs[n][1]) /\ OnCrossedEdge(g, v, segs[n][2])

\* C22: a cell of code 0 or 15 emits no segment, one of code 5 or 10 two,
\* every other cell one, and both ends of every segment lie on an edge
\* whose corners are classified differently, at t = |v0| / (|v0| + |v1|)
\* in [0, 1] from the first corner of the edge.
CellFollowsTable == appl.done => FollowsTable(appl.g, appl.v, appl.segs)

\* the same for the cells whose corner values are all finite
FiniteCellFollowsTable ==
    (appl.done /\ \A n \in 1..4 : isFinite(appl.v[n])) =>
        FollowsTable(appl.g, appl.v, appl.segs)

\* a saddle cell with finite corner values has been marched
SaddleCellMarched ==
    /\ appl.done
    /\ CellCode(appl.v) = 5
    /\ \A n \in 1..4 : isFinite(appl.v[n])
    /\ Len(appl.segs) = 2

-----------------------------------------------------------------------------
(* Properties of the expression compiler *)

Variables == {"x", "y", "t"}

\* a variable letter on its own is directly followed by an opening parenthesis
VariableCall(e) ==
    \E i \in 1..Len(e) :
        /\ e[i] \in Variables
        /\ CharAt(e, i - 1) \notin WordChar
        /\ CharAt(e, i + 1) = "("

Declares(ps, key) == \E k \in 1..Len(ps) : ps[k].key = key

ValueOf(ps, key) == ps[CHOOSE k \in 1..Len(ps) : ps[k].key = key].value

\* 2x compiles to 2*x, and ax to (value of a)*x when a is a declared parameter
DigitAndParameterProducts ==
    appl.done =>
        /\ appl.str = <<"2", "x">> => appl.expr = <<"2", "*", "x">>
        /\ appl.str = <<"a", "x">> /\ Declares(appl.params, "a") =>
              appl.expr = <<"(">> \o ValueOf(appl.params, "a") \o <<")", "*", "x">>

\* C23: a variable letter directly followed by an opening parenthesis is
\* compiled into an explicit product, so that x(x+1) compiles to x*(x+1) and
\* no compiled expression calls a variable, in the same way as 2x compiles
\* to 2*x and ax to a*x for a declared parameter a.
VariableBeforeParenIsProduct ==
    appl.done =>
        /\ appl.str = <<"x", "(", "x", "+", "1", ")">> =>
              appl.expr = <<"x", "*", "(", "x", "+", "1", ")">>
        /\ ~VariableCall(appl.expr)
        /\ DigitAndParameterProducts

ProductsCompiled ==
    /\ appl.done
    /\ appl.str = <<"a", "x">>
    /\ Declares(appl.params, "a")

Builtins == MathFunctions \cup { <<"p", "i">>, <<"e">> }

\* the position i of the expression is in a built-in name, before its last
\* letter
InsideBuiltin(e, i) ==
    \E s \in 1..i :
        /\ WordStart(e, s)
        /\ i < WordEnd(e, s)
        /\ WordAt(e, s) \in Builtins

\* the k-th parameter gets its multiplication signs outside the built-in names
StarsOutsideBuiltins(str, ps, k) ==
    LET e == ParamStars(str, SubSeq(ps, 1, k - 1))
    IN  \A i \in 1..Len(e) : BeforeVariable(e, ps[k].key, i) => ~InsideBuiltin(e, i)

\* C30: the implicit multiplication of the parameters never changes a
\* built-in name: no multiplication sign is put inside sin, cos, tan, asin,
\* acos, atan, sqrt, log, exp, abs, floor, ceil, round, pi or e, whatever
\* single-letter parameters are declared, and the call of a built-in function
\* compiles to the call of the Math function (atan(x) to Math.atan(x) with a
\* parameter a).
ParametersKeepBuiltinNames ==
    appl.done =>
        /\ \A k \in 1..Len(appl.params) : StarsOutsideBuiltins(appl.str, appl.params, k)
        /\ \A name \in MathFunctions :
              appl.str = CallOf(name) => appl.expr = MathDot \o CallOf(name)

\* the names that do not start with a declared parameter followed by x, y or
\* t are kept
OtherNamesAreKept ==
    appl.done =>
        \A name \in MathFunctions :
            /\ appl.str = CallOf(name)
            /\ ~(Declares(appl.params, name[1]) /\ name[2] \in Variables)
            => appl.expr = MathDot \o CallOf(name)

NameCompiledWithItsLetter ==
    /\ appl.done
    /\ appl.str = CallOf(<<"a", "s", "i", "n">>)
    /\ Declares(appl.params, "a")

-----------------------------------------------------------------------------
(* Properties of the transform *)

\* xMin < xMax, yMin < yMax and a plot area that is not empty
ValidTransform(t) ==
    /\ Lt(t.xMin, t.xMax)
    /\ Lt(t.yMin, t.yMax)
    /\ t.width - 2 * t.padding > 0
    /\ t.height - 2 * t.padding > 0

\* screen coordinates of the padded rectangle on each axis, borders included:
\* every fifth half pixel
ScreenXs(t) ==
    { Frac(n, 2) : n \in { m \in (2 * t.padding)..(2 * (t.width - t.padding)) : m % 5 = 0 } }
ScreenYs(t) ==
    { Frac(n, 2) : n \in { m \in (2 * t.padding)..(2 * (t.height - t.padding)) : m % 5 = 0 } }

RoundTrips(t) ==
    /\ \A px \in ScreenXs(t) : mapX(t, unmapX(t, px)) = px
    /\ \A py \in ScreenYs(t) : mapY(t, unmapY(t, py)) = py

CornersUnmap(t) ==
    /\ unmapX(t, R(t.padding)) = t.xMin
    /\ unmapX(t, R(t.width - t.padding)) = t.xMax
    /\ unmapY(t, R(t.height - t.padding)) = t.yMin
    /\ unmapY(t, R(t.padding)) = t.yMax

\* C24: for a transform with xMin < xMax, yMin < yMax and a plot area that
\* is not empty, mapX(unmapX(px)) = px and mapY(unmapY(py)) = py for every
\* screen point of the padded rectangle, and the borders of the rectangle
\* unmap to the bounds: padding to xMin, width - padding to xMax,
\* height - padding to yMin and padding to yMax.
TransformRoundTrips ==
    (transform # Null /\ ValidTransform(transform)) =>
        RoundTrips(transform) /\ CornersUnmap(transform)

\* a transform built from a view that a pan or a zoom has moved
MovedViewTransformed ==
    /\ transform # Null
    /\ ValidTransform(transform)
    /\ Bounds(transform) # EqualAspect(cfg, ConfigLimits(cfg))

-----------------------------------------------------------------------------
(* Properties of the gestures *)

Panning == interactions.isDragging
PinchZooming == isPinching
DraggingSelection == interactions.draggingSelection # Null

\* at most one of Panning, PinchZooming and DraggingSelection
OneGestureAtATime ==
    /\ ~(Panning /\ PinchZooming)
    /\ ~(Panning /\ DraggingSelection)
    /\ ~(PinchZooming /\ DraggingSelection)

\* a two-finger touch-move in PinchZooming whose touches are not at the
\* distance of the gesture's start gives the view the width and height of the
\* start scaled by touchStartDist / currentDist
PinchRescales ==
    (/\ ev'.op = "touchmove"
     /\ PinchZooming
     /\ cfg.interactive = "true" /\ ~cfg.constrainView
     /\ transform # Null /\ touch.touchStartView # Null
     /\ Len(ev'.p) = 2
     /\ touch.touchStartDist > 0
     /\ getTouchDist(ev'.p) # touch.touchStartDist)
    => LET scale == Frac(touch.touchStartDist, getTouchDist(ev'.p))
           tsv == touch.touchStartView
       IN  /\ Sub(view'.xMax, view'.xMin) = Mul(tsv.width, scale)
           /\ Sub(view'.yMax, view'.yMin) = Mul(tsv.height, scale)

\* C25: at every moment at most one of Panning (interactions.isDragging),
\* PinchZooming (isPinching) and DraggingSelection (draggingSelection not
\* null) holds, in every order of the pointer and touch events, and a pinch
\* in PinchZooming on an interactive plot rescales the view.
GesturesAreExclusive ==
    /\ []OneGestureAtATime
    /\ [][PinchRescales]_vars

\* a pinch of a plot that is not panning rescales the view
PinchRescalesUnlessPanning ==
    [][ ~Panning => PinchRescales ]_vars

\* a selection drag and a pan or a pinch exclude each other as long as the
\* pointer gesture and the touch gesture do not overlap
SelectionDragIsExclusive ==
    ~(gest.down /\ gest.nTouch > 0) =>
        /\ ~(Panning /\ DraggingSelection)
        /\ ~(Panning /\ PinchZooming)

PinchedWhilePanning ==
    /\ Panning /\ PinchZooming
    /\ ev.op = "touchmove"

-----------------------------------------------------------------------------
(* Properties of the calls of draw() *)

\* the positions of the stack that are calls of draw()
DrawCalls == { k \in 1..Len(appl.stack) : appl.stack[k].fn = "draw" }

\* C26: draw() is never re-entered: no two calls of draw() under way are on
\* the same instance, whatever the draw reaches (selection restore, tangent
\* update, derivative-plot sync); and the nesting is bounded: at most the
\* draw of a plot and that of its derivative plot, which has no derivative
\* plot of its own.
DrawIsNeverReentered ==
    /\ \A j, k \in DrawCalls : j # k => appl.stack[j].inst # appl.stack[k].inst
    /\ Cardinality(DrawCalls) <= 2
    /\ \A i \in 1..Len(appl.plots) :
          appl.plots[i].derivativePlot # 0 =>
              appl.plots[appl.plots[i].derivativePlot].derivativePlot = 0

\* the draw of a plot with a selection in tangent mode has reached the draw of
\* its derivative plot from _updateSelectionVisuals
NestedDrawFromSelection ==
    /\ Len(appl.stack) = 3
    /\ appl.stack[1].fn = "draw"
    /\ appl.stack[2].fn = "_updateSelectionVisuals"
    /\ appl.stack[3].fn = "draw"
    /\ appl.stack[3].pc = "end"

-----------------------------------------------------------------------------
(* Properties of the hit test *)

\* the point of the primitive nearest to (x, y): the point itself, or the
\* point of the segment at the parameter t of the projection clamped to [0, 1]
NearestOn(item, x, y) ==
    IF item.type = "point" THEN <<item.cx, item.cy>>
    ELSE LET ux == Sub(item.x2, item.x1)
             uy == Sub(item.y2, item.y1)
             l2 == Add(Mul(ux, ux), Mul(uy, uy))
             t  == IF l2 = R(0) THEN R(0)
                   ELSE RMax(R(0), RMin(R(1),
                          Div(Add(Mul(Sub(x, item.x1), ux), Mul(Sub(y, item.y1), uy)), l2)))
         IN  <<Add(item.x1, Mul(t, ux)), Add(item.y1, Mul(t, uy))>>

\* the square of the Euclidean distance from (x, y) to the primitive
Dist2(item, x, y) ==
    LET n == NearestOn(item, x, y)
    IN  Add(Mul(Sub(x, n[1]), Sub(x, n[1])), Mul(Sub(y, n[2]), Sub(y, n[2])))

\* the primitives of the cache the query may return: of the item limitToIndex
\* when it is given, and strictly nearer than the threshold
Eligible(pd, x, y, limit) ==
    { i \in 1..Len(pd) :
        /\ limit # NoLimit => pd[i].index = limit
        /\ Lt(Dist2(pd[i], x, y), R(Threshold * Threshold)) }

\* the first of the nearest eligible primitives
FirstNearest(pd, x, y, el) ==
    CHOOSE i \in el :
        \A j \in el :
            \/ Lt(Dist2(pd[i], x, y), Dist2(pd[j], x, y))
            \/ Dist2(pd[i], x, y) = Dist2(pd[j], x, y) /\ i <= j

IsMatchOf(match, item, x, y) ==
    match = Merge(item, [x |-> NearestOn(item, x, y)[1], y |-> NearestOn(item, x, y)[2],
                         dist2 |-> Dist2(item, x, y)])

NearestOf(pd, x, y, el, match) ==
    IF el = {} THEN match = Null
    ELSE IsMatchOf(match, pd[FirstNearest(pd, x, y, el)], x, y)

-----------------------------------------------------------------------------
(* Properties of the slope points *)

\* C28: slopeP1 is null exactly when slopeP2 is, and both are null whenever
\* selectionMode is not 'slope', in every order of the pointer events and the
\* mode buttons, a mode button pressed between pointer-down and pointer-up
\* included.
SlopePointsArePaired ==
    /\ (interactions.slopeP1 = Null) <=> (interactions.slopeP2 = Null)
    /\ selectionMode # "slope" =>
          interactions.slopeP1 = Null /\ interactions.slopeP2 = Null

\* a slope point is being dragged although a mode button has cleared the
\* slope points since the pointer went down
StaleSlopeDrag ==
    /\ "ref" \in DOMAIN interactions.draggingSelection
    /\ (selectionMode # "slope" \/ interactions.slopeP1 = Null)

\* every event but those of such a drag keeps the slope points paired
SlopePointsStayPaired ==
    [][ (SlopePointsArePaired /\ ~StaleSlopeDrag) => SlopePointsArePaired' ]_vars

SlopePairSelected ==
    /\ selectionMode = "slope"
    /\ interactions.slopeP1 # Null /\ interactions.slopeP2 # Null
    /\ interactions.slopeP1 # interactions.slopeP2

-----------------------------------------------------------------------------
(* Properties of the trace *)

\* C29: right after clearTrace() derivativeTrace is empty, in every state it
\* is called in: tangent mode with tracing on and a current selection
\* included.
ClearTraceEmptiesTrace ==
    ev.op = "btnClean" => derivativeTrace = << >>

\* clearTrace() leaves at most the point of the current selection, and
\* nothing when nothing is selected or tracing is off
ClearTraceLeavesSelectionOnly ==
    ev.op = "btnClean" =>
        /\ Len(derivativeTrace) <= 1
        /\ (interactions.currentSelection = Null \/ ~isTracing) => derivativeTrace = << >>
        /\ derivativeTrace # << >> =>
              derivativeTrace[1].x = interactions.currentSelection.valX

TraceCleared ==
    /\ ev.op = "btnClean"
    /\ isTracing
    /\ interactions.currentSelection # Null

====
